---- MODULE Spec2Model ----
(***************************************************************************)
(* Lazy geometry facade of the MLT decoder: the geometry reconstruction    *)
(* engine (bulk and single-geometry), the lazy coordinates resolver, the   *)
(* deferred geometry column and the feature table / virtual layer.         *)
(*                                                                         *)
(* JavaScript arrays are 0-based; sequences here are 1-based, so the       *)
(* element a[i] of the source is At(a, i).  A Point is the pair <<x, y>>,  *)
(* a ring or line is a sequence of points and a CoordinatesArray is a      *)
(* sequence of rings.                                                      *)
(***************************************************************************)
EXTENDS Integers, Sequences, FiniteSets, TLC

----------------------------------------------------------------------------
(* Bounds of the model *)

\* largest number of features of a generated geometry vector (SpecConv, Spec)
MaxGeoms == 3

----------------------------------------------------------------------------
(* GEOMETRY_TYPE and VertexBufferType *)

POINT == "POINT"
LINESTRING == "LINESTRING"
POLYGON == "POLYGON"
MULTIPOINT == "MULTIPOINT"
MULTILINESTRING == "MULTILINESTRING"
MULTIPOLYGON == "MULTIPOLYGON"

VEC_2 == "VEC_2"
MORTON == "MORTON"

At(a, i) == a[i + 1]

RECURSIVE Flat(_)
\* Array.prototype.flat(): one level of nesting removed
Flat(ss) == IF ss = <<>> THEN <<>> ELSE Head(ss) \o Flat(Tail(ss))

RECURSIVE SumSeq(_)
SumSeq(s) == IF s = <<>> THEN 0 ELSE Head(s) + SumSeq(Tail(s))

RECURSIVE PrefixSums(_, _)
\* offsets buffer of a sequence of lengths, starting at `from`
PrefixSums(lens, from) ==
    IF lens = <<>> THEN <<from>>
    ELSE <<from>> \o PrefixSums(Tail(lens), from + Head(lens))

----------------------------------------------------------------------------
(* Z-order curve *)

RECURSIVE decodeMorton(_, _, _)
\* the bits of `code` at the even positions 0, 2, .., 2*(numBits-1), packed
decodeMorton(code, numBits, i) ==
    IF i >= numBits THEN 0
    ELSE ((code \div (2 ^ (2 * i))) % 2) * (2 ^ i) + decodeMorton(code, numBits, i + 1)

decodeZOrderCurve(mortonCode, numBits, coordinateShift) ==
    << decodeMorton(mortonCode, numBits, 0) - coordinateShift,
       decodeMorton(mortonCode \div 2, numBits, 0) - coordinateShift >>

----------------------------------------------------------------------------
(* GeometryVector: the accessors the converters use *)

numGeometries(v) == Len(v.types)

geometryType(v, index) == At(v.types, index)

containsSingleGeometryType(v) == v.singleType

containsPolygonGeometry(v) ==
    \E i \in 1..Len(v.types) : v.types[i] \in {POLYGON, MULTIPOLYGON}

hasDictionaryEncoding(vertexOffsets) == Len(vertexOffsets) > 0

----------------------------------------------------------------------------
(* MvtGeometryFactory *)

createPoint(coordinate) == << <<coordinate>> >>

createMultiPoint(points) == [i \in 1..Len(points) |-> <<points[i]>>]

createLineString(vertices) == <<vertices>>

createMultiLineString(lineStrings) == lineStrings

createPolygon(shell, rings) == <<shell>> \o rings

createMultiPolygon(polygons) == Flat(polygons)

----------------------------------------------------------------------------
(* Vertex decoding helpers *)

getLineString(vertexBuffer, startIndex, numVertices, closeLineString) ==
    LET vertices == [k \in 1..numVertices |->
                        << At(vertexBuffer, startIndex + 2 * (k - 1)),
                           At(vertexBuffer, startIndex + 2 * (k - 1) + 1) >>]
    IN  IF closeLineString THEN Append(vertices, vertices[1]) ELSE vertices

\* a dictionary decode that reads the vertex buffer at the position itself
decodeDictionaryEncodedLineStringPositional(vertexBuffer, vertexOffsets, vertexOffset, numVertices, closeLineString) ==
    getLineString(vertexBuffer, vertexOffset * 2, numVertices, closeLineString)

decodeDictionaryEncodedLineString(vertexBuffer, vertexOffsets, vertexOffset, numVertices, closeLineString) ==
    LET vertices == [k \in 1..numVertices |->
                        LET offset == At(vertexOffsets, vertexOffset + (k - 1)) * 2
                        IN  << At(vertexBuffer, offset), At(vertexBuffer, offset + 1) >>]
    IN  IF closeLineString THEN Append(vertices, vertices[1]) ELSE vertices

decodeMortonDictionaryEncodedLineString(vertexBuffer, vertexOffsets, vertexOffset, numVertices, closeLineString, mortonSettings) ==
    LET vertices == [k \in 1..numVertices |->
                        LET offset == At(vertexOffsets, vertexOffset + (k - 1))
                        IN  decodeZOrderCurve(At(vertexBuffer, offset),
                                              mortonSettings.numBits,
                                              mortonSettings.coordinateShift)]
    IN  IF closeLineString THEN Append(vertices, vertices[1]) ELSE vertices

\* requireMortonSettings throws when the settings are absent
MortonSettingsMissing(v) ==
    /\ hasDictionaryEncoding(v.vertexOffsets)
    /\ v.vertexBufferType # VEC_2
    /\ ~v.hasMorton

\* a point decode that reads a Morton buffer at the vertex index itself
decodePointAtVertexIndexPositional(v, vertexIndex) ==
    IF ~hasDictionaryEncoding(v.vertexOffsets)
    THEN << At(v.vertexBuffer, vertexIndex * 2), At(v.vertexBuffer, vertexIndex * 2 + 1) >>
    ELSE IF v.vertexBufferType = VEC_2
    THEN << At(v.vertexBuffer, At(v.vertexOffsets, vertexIndex) * 2),
            At(v.vertexBuffer, At(v.vertexOffsets, vertexIndex) * 2 + 1) >>
    ELSE decodeZOrderCurve(At(v.vertexBuffer, vertexIndex),
                           v.mortonSettings.numBits, v.mortonSettings.coordinateShift)

decodePointAtVertexIndex(v, vertexIndex) ==
    IF ~hasDictionaryEncoding(v.vertexOffsets)
    THEN << At(v.vertexBuffer, vertexIndex * 2), At(v.vertexBuffer, vertexIndex * 2 + 1) >>
    ELSE IF v.vertexBufferType = VEC_2
    THEN LET vertexBufferOffset == At(v.vertexOffsets, vertexIndex) * 2
         IN  << At(v.vertexBuffer, vertexBufferOffset),
                At(v.vertexBuffer, vertexBufferOffset + 1) >>
    ELSE decodeZOrderCurve(At(v.vertexBuffer, At(v.vertexOffsets, vertexIndex)),
                           v.mortonSettings.numBits, v.mortonSettings.coordinateShift)

decodeLineStringAtVertexIndex(v, startVertexIndex, numVertices, closeLineString) ==
    IF ~hasDictionaryEncoding(v.vertexOffsets)
    THEN getLineString(v.vertexBuffer, startVertexIndex * 2, numVertices, closeLineString)
    ELSE IF v.vertexBufferType = VEC_2
    THEN decodeDictionaryEncodedLineString(v.vertexBuffer, v.vertexOffsets,
                                           startVertexIndex, numVertices, closeLineString)
    ELSE decodeMortonDictionaryEncodedLineString(v.vertexBuffer, v.vertexOffsets,
                                                 startVertexIndex, numVertices,
                                                 closeLineString, v.mortonSettings)

decodeMultiPointAtVertexIndex(v, startVertexIndex, numPoints) ==
    IF ~hasDictionaryEncoding(v.vertexOffsets)
    THEN [k \in 1..numPoints |->
            LET vertexBufferOffset == (startVertexIndex + (k - 1)) * 2
            IN  << << At(v.vertexBuffer, vertexBufferOffset),
                      At(v.vertexBuffer, vertexBufferOffset + 1) >> >>]
    ELSE IF v.vertexBufferType = VEC_2
    THEN [k \in 1..numPoints |->
            LET vertexBufferOffset == At(v.vertexOffsets, startVertexIndex + (k - 1)) * 2
            IN  << << At(v.vertexBuffer, vertexBufferOffset),
                      At(v.vertexBuffer, vertexBufferOffset + 1) >> >>]
    ELSE [k \in 1..numPoints |->
            LET mortonCodeOffset == At(v.vertexOffsets, startVertexIndex + (k - 1))
            IN  << decodeZOrderCurve(At(v.vertexBuffer, mortonCodeOffset),
                                     v.mortonSettings.numBits,
                                     v.mortonSettings.coordinateShift) >>]

----------------------------------------------------------------------------
(* convertGeometryVector: one pass over the features with five cursors.    *)
(* The cursor record st holds geometryOffsetsCounter (geo),                *)
(* partOffsetCounter (part), ringOffsetsCounter (ring), vertexBufferOffset *)
(* (vbo), vertexOffsetsOffset (voo), the geometries built so far (out),    *)
(* the line strings or rings of the feature at hand (lines), its polygons  *)
(* (polys) and the error thrown, if any (err).                             *)

\* the start vertex index the next decode is given
StartVertexIndex(v, st) ==
    IF ~hasDictionaryEncoding(v.vertexOffsets) THEN st.vbo \div 2 ELSE st.voo

\* the vertex cursor after numVertices vertices were consumed
AdvanceVertices(v, st, numVertices) ==
    IF ~hasDictionaryEncoding(v.vertexOffsets)
    THEN [st EXCEPT !.vbo = @ + numVertices * 2]
    ELSE [st EXCEPT !.voo = @ + numVertices]

\* geometries[geometryCounter++] = g
Emit(st, g) == [st EXCEPT !.out = Append(@, g)]

\* if (geometryOffsets) geometryOffsetsCounter++
GeoInc(v, st) == IF v.hasGeo THEN [st EXCEPT !.geo = @ + 1] ELSE st

\* geometryOffsets[geometryOffsetsCounter] - geometryOffsets[geometryOffsetsCounter - 1]
GeoLength(v, st) == At(v.geometryOffsets, st.geo) - At(v.geometryOffsets, st.geo - 1)

\* partOffsets[partOffsetCounter] - partOffsets[partOffsetCounter - 1]
PartLength(v, st) == At(v.partOffsets, st.part) - At(v.partOffsets, st.part - 1)

\* ringOffsets[ringOffsetsCounter] - ringOffsets[ringOffsetsCounter - 1]
RingLength(v, st) == At(v.ringOffsets, st.ring) - At(v.ringOffsets, st.ring - 1)

\* numVertices vertices decoded at the vertex cursor and kept in lines
DecodeLine(v, st, numVertices, closeLineString) ==
    AdvanceVertices(v,
        [st EXCEPT !.lines = Append(@, decodeLineStringAtVertexIndex(
                                          v, StartVertexIndex(v, st), numVertices,
                                          closeLineString))],
        numVertices)

\* one line of a LINESTRING or MULTILINESTRING
BulkLine(v, st) ==
    IF containsPolygonGeometry(v)
    THEN DecodeLine(v, [st EXCEPT !.ring = @ + 1, !.part = @ + 1], RingLength(v, st), FALSE)
    ELSE DecodeLine(v, [st EXCEPT !.part = @ + 1], PartLength(v, st), FALSE)

RECURSIVE BulkLines(_, _, _)
\* the lines of one MULTILINESTRING
BulkLines(v, st, n) ==
    IF n <= 0 THEN st ELSE BulkLines(v, BulkLine(v, st), n - 1)

\* one closed ring (the shell or a further ring of a polygon)
BulkRing(v, st) ==
    DecodeLine(v, [st EXCEPT !.ring = @ + 1], RingLength(v, st), TRUE)

RECURSIVE BulkRings(_, _, _)
BulkRings(v, st, n) ==
    IF n <= 0 THEN st ELSE BulkRings(v, BulkRing(v, st), n - 1)

\* geometryFactory.createPolygon(shell, rings), kept in polys
PolygonDone(st) ==
    [st EXCEPT !.polys = Append(@, createPolygon(Head(st.lines), Tail(st.lines))),
               !.lines = <<>>]

\* one polygon: numRings from partOffsets, the shell, then numRings - 1 rings
BulkPolygon(v, st) ==
    IF PartLength(v, st) < 1
    THEN [st EXCEPT !.part = @ + 1, !.err = "RangeError"]     \* new Array(numRings - 1)
    ELSE PolygonDone(BulkRings(v, BulkRing(v, [st EXCEPT !.part = @ + 1, !.lines = <<>>]),
                               PartLength(v, st) - 1))

RECURSIVE BulkPolygons(_, _, _)
\* the polygons of one MULTIPOLYGON
BulkPolygons(v, st, n) ==
    IF n <= 0 \/ st.err # "none" THEN st
    ELSE BulkPolygons(v, BulkPolygon(v, st), n - 1)

\* the geometry of a finished feature handed to geometries[]
EmitLineString(v, st) == GeoInc(v, Emit(st, createLineString(st.lines[1])))

EmitPolygon(v, st) ==
    IF st.err # "none" THEN st ELSE GeoInc(v, Emit(st, st.polys[1]))

EmitMultiLineString(st) == Emit(st, createMultiLineString(st.lines))

EmitMultiPolygon(st) ==
    IF st.err # "none" THEN st ELSE Emit(st, createMultiPolygon(st.polys))

\* the POINT branch
BulkPoint(v, st) ==
    [Emit(AdvanceVertices(v, st, 1),
          createPoint(decodePointAtVertexIndex(v, StartVertexIndex(v, st))))
        EXCEPT !.geo = IF v.hasGeo THEN @ + 1 ELSE @,
               !.part = IF v.hasPart THEN @ + 1 ELSE @,
               !.ring = IF v.hasRing THEN @ + 1 ELSE @]

\* the MULTIPOINT branch: only geometryOffsetsCounter and the vertex cursor move
BulkMultiPoint(v, st) ==
    AdvanceVertices(v,
        Emit([st EXCEPT !.geo = @ + 1],
             decodeMultiPointAtVertexIndex(v, StartVertexIndex(v, st), GeoLength(v, st))),
        GeoLength(v, st))

\* the body of the loop over the features, for feature i
BulkFeature(v, st, i) ==
    CASE geometryType(v, i) = POINT -> BulkPoint(v, st)
      [] geometryType(v, i) = MULTIPOINT -> BulkMultiPoint(v, st)
      [] geometryType(v, i) = LINESTRING ->
            EmitLineString(v, BulkLine(v, [st EXCEPT !.lines = <<>>]))
      [] geometryType(v, i) = POLYGON ->
            EmitPolygon(v, BulkPolygon(v, [st EXCEPT !.polys = <<>>]))
      [] geometryType(v, i) = MULTILINESTRING ->
            EmitMultiLineString(BulkLines(v, [st EXCEPT !.geo = @ + 1, !.lines = <<>>],
                                          GeoLength(v, st)))
      [] geometryType(v, i) = MULTIPOLYGON ->
            EmitMultiPolygon(BulkPolygons(v, [st EXCEPT !.geo = @ + 1, !.polys = <<>>],
                                          GeoLength(v, st)))
      [] OTHER -> [st EXCEPT !.err = "Error"]

RECURSIVE BulkLoop(_, _, _)
BulkLoop(v, st, i) ==
    IF i >= numGeometries(v) \/ st.err # "none" THEN st
    ELSE IF MortonSettingsMissing(v) THEN [st EXCEPT !.err = "Error"]
    ELSE BulkLoop(v, BulkFeature(v, st, i), i + 1)

\* the cursors and the geometries after the whole pass
BulkPass(v) ==
    BulkLoop(v, [geo |-> 1, part |-> 1, ring |-> 1, vbo |-> 0, voo |-> 0,
                 out |-> <<>>, lines |-> <<>>, polys |-> <<>>, err |-> "none"], 0)

\* what the function returns or throws, from the cursors at the end
BulkResult(st) ==
    [err |-> st.err, geoms |-> IF st.err = "none" THEN st.out ELSE <<>>]

\* [err, geoms]: the array of CoordinatesArray, or the error thrown
convertGeometryVector(v) == BulkResult(BulkPass(v))

----------------------------------------------------------------------------
(* convertSingleGeometry.  The result is [err, coords, bulk]: the error    *)
(* thrown ("none" when it returns), the CoordinatesArray returned, and the *)
(* number of times convertGeometryVector was invoked on the way.           *)

Returned(coords) == [err |-> "none", coords |-> coords, bulk |-> 0]

Thrown(e) == [err |-> e, coords |-> <<>>, bulk |-> 0]

\* marks a branch that ends in  return convertGeometryVector(geometryVector)[index]
ViaBulk == [err |-> "viaBulk", coords |-> <<>>, bulk |-> 1]

\* element index of the array convertGeometryVector returned
BulkElement(all, index) ==
    IF all.err # "none" THEN [err |-> all.err, coords |-> <<>>, bulk |-> 1]
    ELSE [err |-> "none", coords |-> At(all.geoms, index), bulk |-> 1]

\* a fallback that returns the first element of the bulk result
FallBackToBulkFirst(v, index) == BulkElement(convertGeometryVector(v), 0)

\* return convertGeometryVector(geometryVector)[index]
FallBackToBulk(v, index) == BulkElement(convertGeometryVector(v), index)

\* decodeLineStringAtVertexIndex over the entry `at` of an offsets buffer
DecodeEntry(v, offsets, at, closeLineString) ==
    decodeLineStringAtVertexIndex(v, At(offsets, at), At(offsets, at + 1) - At(offsets, at),
                                  closeLineString)

\* the rings ringStart .. ringEnd - 1, closed
SingleRings(v, ringStart, ringEnd) ==
    [r \in 1..(ringEnd - ringStart) |-> DecodeEntry(v, v.ringOffsets, ringStart + (r - 1), TRUE)]

\* the rings of the polygons polygonStart .. polygonEnd - 1, in one flat list
SingleAllRings(v, polygonStart, polygonEnd) ==
    Flat([p \in 1..(polygonEnd - polygonStart) |->
            SingleRings(v, At(v.partOffsets, polygonStart + (p - 1)),
                        At(v.partOffsets, polygonStart + (p - 1) + 1))])

\* the vertex index a root offset of a mixed vector stands for
MixedVertexIndex(v, root) ==
    IF v.hasRing /\ v.hasPart THEN At(v.ringOffsets, At(v.partOffsets, root))
    ELSE IF v.hasPart THEN At(v.partOffsets, root)
    ELSE root

\* POINT and MULTIPOINT of a mixed vector, from the vertex range start .. end
SingleMixedPoints(v, gt, start, end) ==
    IF gt = POINT
    THEN Returned(<< << decodePointAtVertexIndex(v, start) >> >>)
    ELSE Returned(decodeMultiPointAtVertexIndex(v, start, end - start))

\* the lines lineStart .. lineEnd - 1 of a mixed vector
SingleMixedLines(v, lineStart, lineEnd) ==
    [k \in 1..(lineEnd - lineStart) |->
        IF v.hasRing
        THEN DecodeEntry(v, v.ringOffsets, At(v.partOffsets, lineStart + (k - 1)), FALSE)
        ELSE DecodeEntry(v, v.partOffsets, lineStart + (k - 1), FALSE)]

\* geometryType === LINESTRING ? [lineStrings[0]] : lineStrings
LineOrLines(gt, lineStrings) ==
    Returned(IF gt = LINESTRING THEN << lineStrings[1] >> ELSE lineStrings)

\* a mixed branch that always ends in the bulk fallback
SingleMixedEager(v, index) == ViaBulk

\* the branch for vectors that are not single-type
SingleMixed(v, index) ==
    IF v.hasGeo /\ geometryType(v, index) \in {POINT, MULTIPOINT}
    THEN SingleMixedPoints(v, geometryType(v, index),
                           MixedVertexIndex(v, At(v.geometryOffsets, index)),
                           MixedVertexIndex(v, At(v.geometryOffsets, index + 1)))
    ELSE IF v.hasGeo /\ geometryType(v, index) \in {LINESTRING, MULTILINESTRING} /\ v.hasPart
    THEN LineOrLines(geometryType(v, index),
                     SingleMixedLines(v, At(v.geometryOffsets, index),
                                      At(v.geometryOffsets, index + 1)))
    ELSE IF /\ v.hasGeo /\ geometryType(v, index) \in {POLYGON, MULTIPOLYGON}
            /\ v.hasPart /\ v.hasRing
    THEN Returned(SingleAllRings(v, At(v.geometryOffsets, index),
                                 At(v.geometryOffsets, index + 1)))
    ELSE ViaBulk

\* the lines lineStart .. lineEnd - 1 of a single-type vector
SingleConstLines(v, lineStart, lineEnd) ==
    [k \in 1..(lineEnd - lineStart) |->
        DecodeEntry(v, v.partOffsets, lineStart + (k - 1), FALSE)]

\* the switch on geometryType(0) for single-type vectors
SingleConst(v, index) ==
    CASE geometryType(v, 0) = POINT ->
            Returned(<< << decodePointAtVertexIndex(v, index) >> >>)
      [] geometryType(v, 0) = MULTIPOINT ->
            IF ~v.hasGeo THEN ViaBulk
            ELSE Returned(decodeMultiPointAtVertexIndex(
                              v, At(v.geometryOffsets, index),
                              At(v.geometryOffsets, index + 1) - At(v.geometryOffsets, index)))
      [] geometryType(v, 0) = LINESTRING ->
            IF ~v.hasPart THEN ViaBulk
            ELSE Returned(<< DecodeEntry(v, v.partOffsets, index, FALSE) >>)
      [] geometryType(v, 0) = MULTILINESTRING ->
            IF ~v.hasGeo \/ ~v.hasPart THEN ViaBulk
            ELSE Returned(SingleConstLines(v, At(v.geometryOffsets, index),
                                           At(v.geometryOffsets, index + 1)))
      [] geometryType(v, 0) = POLYGON ->
            IF ~v.hasPart \/ ~v.hasRing THEN ViaBulk
            ELSE Returned(SingleRings(v, At(v.partOffsets, index),
                                      At(v.partOffsets, index + 1)))
      [] geometryType(v, 0) = MULTIPOLYGON ->
            IF ~v.hasGeo \/ ~v.hasPart \/ ~v.hasRing THEN ViaBulk
            ELSE Returned(SingleAllRings(v, At(v.geometryOffsets, index),
                                         At(v.geometryOffsets, index + 1)))
      [] OTHER -> ViaBulk

\* the outcome of the branch taken: the bulk fallback where the branch ends in one,
\* the error of requireMortonSettings where a decode needed the missing settings
SingleOutcome(v, index, r) ==
    IF r.err = "viaBulk" THEN FallBackToBulk(v, index)
    ELSE IF MortonSettingsMissing(v) THEN Thrown("Error")
    ELSE r

convertSingleGeometry(v, index) ==
    IF index < 0 \/ index >= numGeometries(v) THEN Thrown("RangeError")
    ELSE IF ~containsSingleGeometryType(v)
    THEN SingleOutcome(v, index, SingleMixed(v, index))
    ELSE SingleOutcome(v, index, SingleConst(v, index))

----------------------------------------------------------------------------
(* Legal geometry vectors.  A feature is described by its type and its     *)
(* units (the entries it owns at the root level): a point is the unit      *)
(* <<1>>, a line of n vertices the unit <<n>>, a polygon the unit of its   *)
(* rings' vertex counts.  LayoutVector lays the topology out level by      *)
(* level: every unit owns one entry per level below it, a point counting 1 *)
(* at each level.                                                          *)

IsMulti(t) == t \in {MULTIPOINT, MULTILINESTRING, MULTIPOLYGON}
IsLine(t) == t \in {LINESTRING, MULTILINESTRING}
IsPolygon(t) == t \in {POLYGON, MULTIPOLYGON}

Shape(t, units) == [type |-> t, units |-> units]

Shapes ==
    { Shape(POINT, << <<1>> >>),
      Shape(MULTIPOINT, << <<1>> >>),
      Shape(MULTIPOINT, << <<1>>, <<1>> >>),
      Shape(LINESTRING, << <<2>> >>),
      Shape(MULTILINESTRING, << <<2>> >>),
      Shape(MULTILINESTRING, << <<2>>, <<3>> >>),
      Shape(POLYGON, << <<3>> >>),
      Shape(POLYGON, << <<3, 4>> >>),
      Shape(MULTIPOLYGON, << <<3>> >>),
      Shape(MULTIPOLYGON, << <<3>>, <<4, 3>> >>) }

Encodings == {"plain", "dictionary", "morton"}

\* the entries of a feature's units at the part level and at the ring level
PartLengths(shape, withRings) ==
    [u \in 1..Len(shape.units) |->
        IF IsPolygon(shape.type) THEN Len(shape.units[u])
        ELSE IF IsLine(shape.type) /\ ~withRings THEN shape.units[u][1]
        ELSE 1]

RingLengths(shape) ==
    Flat([u \in 1..Len(shape.units) |->
            IF IsPolygon(shape.type) THEN shape.units[u] ELSE << shape.units[u][1] >>])

LayoutVector(shapes, singleType, enc) ==
    LET n == Len(shapes)
        hasGeo == \E i \in 1..n : IsMulti(shapes[i].type)
        hasPart == \E i \in 1..n : IsLine(shapes[i].type) \/ IsPolygon(shapes[i].type)
        hasRing == \E i \in 1..n : IsPolygon(shapes[i].type)
        numVertices == SumSeq(Flat([i \in 1..n |-> RingLengths(shapes[i])]))
    IN  [ singleType |-> singleType,
          types |-> [i \in 1..n |-> shapes[i].type],
          hasGeo |-> hasGeo,
          hasPart |-> hasPart,
          hasRing |-> hasRing,
          geometryOffsets |->
              IF hasGeo THEN PrefixSums([i \in 1..n |-> Len(shapes[i].units)], 0) ELSE <<>>,
          partOffsets |->
              IF hasPart
              THEN PrefixSums(Flat([i \in 1..n |-> PartLengths(shapes[i], hasRing)]), 0)
              ELSE <<>>,
          ringOffsets |->
              IF hasRing
              THEN PrefixSums(Flat([i \in 1..n |-> RingLengths(shapes[i])]), 0)
              ELSE <<>>,
          vertexOffsets |->
              IF enc = "plain" THEN <<>>
              ELSE [j \in 1..numVertices |-> numVertices - j],
          vertexBuffer |->
              IF enc = "morton" THEN [d \in 1..numVertices |-> 5 * d + 2]
              ELSE Flat([d \in 1..numVertices |-> << 10 * d, 10 * d + 1 >>]),
          vertexBufferType |-> IF enc = "morton" THEN MORTON ELSE VEC_2,
          hasMorton |-> enc = "morton",
          mortonSettings |-> [numBits |-> 4, coordinateShift |-> 3] ]

ShapeLists == UNION { [1..n -> Shapes] : n \in 1..MaxGeoms }

SameType(shapes) == \A i \in 1..Len(shapes) : shapes[i].type = shapes[1].type

\* single-type vectors report containsSingleGeometryType; vectors of per-feature
\* types do not, whatever their types are
LegalVectors ==
    { LayoutVector(f, FALSE, enc) : f \in ShapeLists, enc \in Encodings }
    \cup { LayoutVector(f, TRUE, enc) : f \in {g \in ShapeLists : SameType(g)},
                                       enc \in Encodings }

----------------------------------------------------------------------------
(* LazyGeometryCoordinatesResolver, DeferredGeometryColumn and FeatureTable *)

maxIndexDeltaForSequential == 2
nearSequentialThreshold == 32
absoluteAccessThreshold == 512

\* largest number of layers obtained from the table (getLayer calls)
MaxLayers == 2
\* largest number of feature objects created through layer.feature(i)
MaxFeatures == 2
\* largest number of calls made on the deferred column directly
MaxColumnCalls == 2
\* number of features of the vector the scan specification reads
ScanFeatures == 34

VARIABLES
    gv,         \* the geometry vector (converted, or held by the table or column)
    cvIndex,    \* the index last given to convertSingleGeometry
    cvSingle,   \* what that call returned or threw ("unset" before the first)
    cvBulk,     \* what convertGeometryVector returned or threw ("unset" before)
    gpu,        \* the table's vector is a GpuVector, not a GeometryVector
    tbl,        \* FeatureTable and its DeferredGeometryColumn:
                \*   vector   = _geometryVector is set
                \*   deferred = _deferredGeometry is set
                \*   column   = the table was built on a deferred column
                \*   decoded  = the column's `decoded` is set
                \*   types    = the column's geometryTypes cache: "null", "number", "array"
    calls,      \* how often each spied function has been invoked
    layers,     \* the resolver of each layer obtained so far
    feats,      \* the feature objects created so far
    lastOp,     \* the last operation and what it returned
    values,     \* the integer sequences handed to the stream or FastPFOR encoder
    tile,       \* the encoded buffer (bytes)
    offset,     \* the IntWrapper cursor over the buffer
    decoded     \* what has been decoded from the buffer so far

vars == << gv, cvIndex, cvSingle, cvBulk, gpu, tbl, calls, layers, feats, lastOp,
           values, tile, offset, decoded >>

codecVars == << values, tile, offset, decoded >>
\* the variables of the direct converter calls and of the codecs
convVars == << cvIndex, cvSingle, cvBulk, codecVars >>

\* no buffer is decoded by the specifications of the geometry facade
IdleCodec ==
    /\ values = <<>>
    /\ tile = <<>>
    /\ offset = 0
    /\ decoded = <<>>
facadeVars == << gpu, tbl, calls, layers, feats, lastOp >>

\* GeometryVector.getGeometries / GpuVector.getGeometries
getGeometries(v) == convertGeometryVector(v)

\* new LazyGeometryCoordinatesResolver(...)
NewResolver ==
    [ resolved |-> FALSE,       \* resolvedVector !== null
      isGV |-> FALSE,           \* resolvedIsGeometryVector
      hasAll |-> FALSE,         \* allGeometries !== null
      all |-> <<>>,             \* allGeometries
      hasLast |-> FALSE,        \* lastRequestedIndex !== null
      last |-> 0,               \* lastRequestedIndex
      near |-> 0,               \* nearSequentialCount
      count |-> 0 ]             \* coordinateAccessCount

NoObject == [src |-> "none", layer |-> 0, n |-> 0]

\* DeferredGeometryColumn.get(), on the world w = [tbl, calls]
DeferredGet(w) ==
    LET c1 == [w.calls EXCEPT !.get = @ + 1]
    IN  IF ~w.tbl.decoded
        THEN IF w.tbl.corrupt
             THEN [tbl |-> w.tbl, calls |-> [c1 EXCEPT !.decode = @ + 1],
                   err |-> "Error"]
             ELSE [tbl |-> [w.tbl EXCEPT !.decoded = TRUE],
                   calls |-> [c1 EXCEPT !.decode = @ + 1], err |-> "none"]
        ELSE [tbl |-> w.tbl, calls |-> c1, err |-> "none"]

\* getGeometryType written as this.get().geometryType(index)
DeferredGetGeometryTypeDecoding(w, v) ==
    DeferredGet([w EXCEPT !.calls.typeCalls = @ + 1])

\* DeferredGeometryColumn.getGeometryType(index), index in range
DeferredGetGeometryType(w, v) ==
    LET c1 == [w.calls EXCEPT !.typeCalls = @ + 1]
    IN  IF w.tbl.decoded THEN [tbl |-> w.tbl, calls |-> c1]
        ELSE IF w.tbl.types = "null"
        THEN [tbl |-> [w.tbl EXCEPT !.types = IF v.singleType THEN "number" ELSE "array"],
              calls |-> [c1 EXCEPT !.typeStream = @ + 1]]
        ELSE [tbl |-> w.tbl, calls |-> c1]

\* resolveGeometryVector that keeps the reference to the deferred column
resolveGeometryVectorKeepingColumn(w) ==
    IF w.tbl.vector THEN [tbl |-> w.tbl, calls |-> w.calls, err |-> "none"]
    ELSE LET g == DeferredGet(w)
         IN  IF g.err # "none" THEN g
             ELSE [tbl |-> [g.tbl EXCEPT !.vector = TRUE], calls |-> g.calls,
                   err |-> "none"]

\* FeatureTable.resolveGeometryVector()
resolveGeometryVector(w) ==
    IF w.tbl.vector THEN [tbl |-> w.tbl, calls |-> w.calls, err |-> "none"]
    ELSE LET g == DeferredGet(w)
         IN  IF g.err # "none" THEN g
             ELSE [tbl |-> [g.tbl EXCEPT !.vector = TRUE, !.deferred = FALSE],
                   calls |-> g.calls, err |-> "none"]

\* the table and the counters of a result
WorldOf(g) == [tbl |-> g.tbl, calls |-> g.calls]

\* getGeometryType written on top of the geometryVector getter
TableGetGeometryTypeResolving(w, v) ==
    << resolveGeometryVector(w), "vector" >>

\* FeatureTable.getGeometryType(index): <<world after, where the answer came from>>
TableGetGeometryType(w, v) ==
    IF w.tbl.vector THEN << w, "vector" >>
    ELSE << DeferredGetGeometryType(w, v), "deferred" >>

\* allGeometries after getGeometries() returned g or threw
StoreAll(r, w, g) ==
    IF g.err # "none" THEN [r |-> r, w |-> w, err |-> g.err]
    ELSE [r |-> [r EXCEPT !.hasAll = TRUE, !.all = g.geoms], w |-> w, err |-> "none"]

\* a materialization whose result is used but not stored in allGeometries
MaterializeNotKept(r, w, v) ==
    [r |-> r, w |-> [w EXCEPT !.calls.bulk = @ + 1], err |-> getGeometries(v).err]

\* this.allGeometries = this.resolvedVector.getGeometries()
Materialize(r, w, v) ==
    StoreAll(r, [w EXCEPT !.calls.bulk = @ + 1], getGeometries(v))

\* bookkeeping that never resets nearSequentialCount
CountAccessNoReset(r, requestedIndex) ==
    LET delta == requestedIndex - r.last
    IN  [r EXCEPT !.count = @ + 1,
                  !.near = IF r.hasLast
                           THEN IF delta > 0 /\ delta <= maxIndexDeltaForSequential
                                THEN @ + 1 ELSE @
                           ELSE @,
                  !.hasLast = TRUE,
                  !.last = requestedIndex]

\* the heuristic's bookkeeping for one access
CountAccess(r, requestedIndex) ==
    LET delta == requestedIndex - r.last
    IN  [r EXCEPT !.count = @ + 1,
                  !.near = IF r.hasLast
                           THEN IF delta > 0 /\ delta <= maxIndexDeltaForSequential
                                THEN @ + 1 ELSE 0
                           ELSE @,
                  !.hasLast = TRUE,
                  !.last = requestedIndex]

\* the test written with > for >=
ThresholdReachedStrict(r) ==
    \/ r.near > nearSequentialThreshold
    \/ r.count > absoluteAccessThreshold

\* the test with the two thresholds exchanged
ThresholdReachedSwapped(r) ==
    \/ r.near >= absoluteAccessThreshold
    \/ r.count >= nearSequentialThreshold

\* the test that switches to bulk mode
ThresholdReached(r) ==
    \/ r.near >= nearSequentialThreshold
    \/ r.count >= absoluteAccessThreshold

\* this.resolvedVector = this.resolveVector(); this.resolvedIsGeometryVector = ...
Resolved(r, isGpu) == [r EXCEPT !.resolved = TRUE, !.isGV = ~isGpu]

\* a resolver without the branch for vectors that are not GeometryVectors
MaterializeIfDueByThreshold(r, w, v, justResolved) ==
    IF ThresholdReached(r) THEN Materialize(r, w, v)
    ELSE [r |-> r, w |-> w, err |-> "none"]

\* the rest of maybeMaterializeAllGeometries once the vector is resolved
MaterializeIfDue(r, w, v, justResolved) ==
    IF justResolved /\ ~r.isGV THEN Materialize(r, w, v)
    ELSE IF ThresholdReached(r) THEN Materialize(r, w, v)
    ELSE [r |-> r, w |-> w, err |-> "none"]

\* this.resolveVector() returned or threw g
AfterResolve(r, g, v, isGpu) ==
    IF g.err # "none" THEN [r |-> r, w |-> WorldOf(g), err |-> g.err]
    ELSE MaterializeIfDue(Resolved(r, isGpu), WorldOf(g), v, TRUE)

\* maybeMaterializeAllGeometries after the counters were updated
ResolveAndMaterialize(r, w, v, isGpu) ==
    IF ~r.resolved
    THEN AfterResolve(r, resolveGeometryVector(w), v, isGpu)
    ELSE MaterializeIfDue(r, w, v, FALSE)

maybeMaterializeAllGeometries(r, requestedIndex, w, v, isGpu) ==
    IF r.hasAll THEN [r |-> r, w |-> w, err |-> "none"]
    ELSE ResolveAndMaterialize(CountAccess(r, requestedIndex), w, v, isGpu)

\* an answer from the materialized array that still keeps the counters
FromMaterializedCounted(r, w, index, layer) ==
    [r |-> CountAccess(r, index), w |-> w, err |-> "none", coords |-> At(r.all, index),
     obj |-> [src |-> "all", layer |-> layer, n |-> index]]

\* the element of the materialized array
FromMaterialized(r, w, index, layer) ==
    [r |-> r, w |-> w, err |-> "none", coords |-> At(r.all, index),
     obj |-> [src |-> "all", layer |-> layer, n |-> index]]

\* a getCoordinates that answers an empty array when the single decode throws
SingleResultMasked(r, w, g) ==
    [r |-> r, w |-> w, err |-> "none", coords |-> IF g.err = "none" THEN g.coords ELSE <<>>,
     obj |-> [src |-> "single", layer |-> 0, n |-> w.calls.single]]

\* what getCoordinates returns when convertSingleGeometry returned or threw g
SingleResult(r, w, g) ==
    [r |-> r, w |-> w, err |-> g.err, coords |-> g.coords,
     obj |-> IF g.err = "none"
             THEN [src |-> "single", layer |-> 0, n |-> w.calls.single]
             ELSE NoObject]

\* convertSingleGeometry(this.resolvedVector, index)
FromSingle(r, w, index, v) ==
    SingleResult(r, [w EXCEPT !.calls.single = @ + 1], convertSingleGeometry(v, index))

\* what getCoordinates returns when getGeometries() returned or threw g
ElementResult(r, w, g, index, layer) ==
    [r |-> r, w |-> w, err |-> g.err,
     coords |-> IF g.err = "none" THEN At(g.geoms, index) ELSE <<>>,
     obj |-> [src |-> "bulk", layer |-> layer, n |-> w.calls.bulk]]

\* (this.resolvedVector as GpuVector).getGeometries()[index]
FromGetGeometries(r, w, index, v, layer) ==
    ElementResult(r, [w EXCEPT !.calls.bulk = @ + 1], getGeometries(v), index, layer)

\* the last statement of getCoordinates
ConvertOne(r, w, index, v, layer) ==
    IF r.isGV THEN FromSingle(r, w, index, v)
    ELSE FromGetGeometries(r, w, index, v, layer)

\* getCoordinates: this.resolveVector() returned or threw g
ConvertResolved(r, g, index, v, isGpu, layer) ==
    IF g.err # "none"
    THEN [r |-> r, w |-> WorldOf(g), err |-> g.err, coords |-> <<>>, obj |-> NoObject]
    ELSE ConvertOne(Resolved(r, isGpu), WorldOf(g), index, v, layer)

\* getCoordinates after maybeMaterializeAllGeometries ended in m
AfterMaybeMaterialize(m, index, v, isGpu, layer) ==
    IF m.err # "none"
    THEN [r |-> m.r, w |-> m.w, err |-> m.err, coords |-> <<>>, obj |-> NoObject]
    ELSE IF m.r.hasAll THEN FromMaterialized(m.r, m.w, index, layer)
    ELSE IF ~m.r.resolved
    THEN ConvertResolved(m.r, resolveGeometryVector(m.w), index, v, isGpu, layer)
    ELSE ConvertOne(m.r, m.w, index, v, layer)

\* LazyGeometryCoordinatesResolver.getCoordinates(index) of the layer's resolver r:
\* the resolver and the world after, and the value returned or the error thrown
getCoordinates(r, index, w, v, isGpu, layer) ==
    IF r.hasAll THEN FromMaterialized(r, w, index, layer)
    ELSE AfterMaybeMaterialize(maybeMaterializeAllGeometries(r, index, w, v, isGpu),
                               index, v, isGpu, layer)

----------------------------------------------------------------------------
(* SpecConv: the two converters applied to every legal vector *)

NoOp ==
    [ op |-> "none", layer |-> 0, feat |-> 0, index |-> 0, err |-> "none",
      coords |-> <<>>, obj |-> NoObject, type |-> "none", typeSrc |-> "none",
      hit |-> FALSE ]

NoCalls ==
    [ single |-> 0, bulk |-> 0, get |-> 0, decode |-> 0, typeStream |-> 0,
      typeCalls |-> 0 ]

\* the facade is not used by the converter specification
IdleFacade ==
    /\ gpu = FALSE
    /\ tbl = [vector |-> TRUE, deferred |-> FALSE, column |-> FALSE,
              decoded |-> FALSE, types |-> "null", corrupt |-> FALSE]
    /\ calls = NoCalls
    /\ layers = <<>>
    /\ feats = <<>>
    /\ lastOp = NoOp

InitConv ==
    /\ gv \in LegalVectors
    /\ IdleFacade
    /\ cvIndex = 0
    /\ cvSingle = [err |-> "unset", coords |-> <<>>, bulk |-> 0]
    /\ cvBulk = [err |-> "unset", geoms |-> <<>>]
    /\ IdleCodec

CallConvertSingleGeometry ==
    \E index \in -1..numGeometries(gv) :
        /\ cvIndex' = index
        /\ cvSingle' = convertSingleGeometry(gv, index)
        /\ UNCHANGED << gv, cvBulk, codecVars >>
        /\ UNCHANGED facadeVars

CallConvertGeometryVector ==
    /\ cvBulk' = convertGeometryVector(gv)
    /\ UNCHANGED << gv, cvIndex, cvSingle, codecVars >>
    /\ UNCHANGED facadeVars

NextConv == CallConvertSingleGeometry \/ CallConvertGeometryVector

SpecConv == InitConv /\ [][NextConv]_vars

\* C1: for every legal vector and valid index, convertSingleGeometry(v, i) is
\* structurally equal to convertGeometryVector(v)[i]
C1_SingleEqualsBulk ==
    (cvSingle.err = "none" /\ cvBulk.err = "none")
        => cvSingle.coords = At(cvBulk.geoms, cvIndex)

----------------------------------------------------------------------------
(* Spec: a feature table, its layers and the features read through them *)

IdleConv ==
    /\ cvIndex = 0
    /\ cvSingle = [err |-> "unset", coords |-> <<>>, bulk |-> 0]
    /\ cvBulk = [err |-> "unset", geoms |-> <<>>]
    /\ IdleCodec

\* new FeatureTable(name, geometryVector, ...) and
\* new FeatureTable(name, null, ..., deferredGeometry)
DirectTable ==
    [vector |-> TRUE, deferred |-> FALSE, column |-> FALSE, decoded |-> FALSE,
     types |-> "null", corrupt |-> FALSE]

DeferredTable ==
    [vector |-> FALSE, deferred |-> TRUE, column |-> TRUE, decoded |-> FALSE,
     types |-> "null", corrupt |-> FALSE]

\* a table on a deferred column whose geometry streams cannot be decoded:
\* decodeGeometryColumn throws
CorruptTable == [DeferredTable EXCEPT !.corrupt = TRUE]

\* the vectors the tables of Spec are built on: a single-type vector of points
\* and a vector with a type per feature
FacadeVectors ==
    { LayoutVector(<< Shape(POINT, << <<1>> >>), Shape(POINT, << <<1>> >>) >>,
                   TRUE, "plain"),
      LayoutVector(<< Shape(MULTIPOINT, << <<1>>, <<1>> >>),
                      Shape(LINESTRING, << <<2>> >>) >>, FALSE, "plain") }

Init ==
    /\ gv \in FacadeVectors
    /\ gpu \in BOOLEAN
    /\ tbl \in {DirectTable, DeferredTable}
    /\ calls = NoCalls
    /\ layers = <<>>
    /\ feats = <<>>
    /\ lastOp = NoOp
    /\ IdleConv

World == [tbl |-> tbl, calls |-> calls]

\* FeatureTable.getLayer()
GetLayer ==
    /\ Len(layers) < MaxLayers
    /\ layers' = Append(layers, NewResolver)
    /\ lastOp' = [NoOp EXCEPT !.op = "getLayer"]
    /\ UNCHANGED << gv, gpu, tbl, calls, feats, convVars >>

\* layer.feature(index) that asks for the geometry type before testing the index
FeatureOutOfRangeAfterType(l, index) ==
    /\ index < 0 \/ index >= numGeometries(gv)
    /\ LET t == TableGetGeometryType(World, gv)
       IN  tbl' = t[1].tbl /\ calls' = t[1].calls
    /\ lastOp' = [NoOp EXCEPT !.op = "feature", !.index = index, !.err = "RangeError"]
    /\ UNCHANGED << gv, gpu, layers, feats, convVars >>

\* layer.feature(index) with an index outside [0, numFeatures)
FeatureOutOfRange(l, index) ==
    /\ index < 0 \/ index >= numGeometries(gv)
    /\ lastOp' = [NoOp EXCEPT !.op = "feature", !.index = index, !.err = "RangeError"]
    /\ UNCHANGED << gv, gpu, tbl, calls, layers, feats, convVars >>

\* layer.feature(index): a fresh feature object
CreateFeature(l, index) ==
    /\ index >= 0 /\ index < numGeometries(gv)
    /\ Len(feats) < MaxFeatures
    /\ LET t == TableGetGeometryType(World, gv)
       IN  /\ tbl' = t[1].tbl
           /\ calls' = t[1].calls
           /\ feats' = Append(feats, [layer |-> l, index |-> index,
                                      type |-> geometryType(gv, index),
                                      has |-> FALSE, coords |-> <<>>, obj |-> NoObject])
           /\ lastOp' = [NoOp EXCEPT !.op = "feature", !.layer = l, !.index = index,
                                     !.feat = Len(feats) + 1,
                                     !.type = geometryType(gv, index),
                                     !.typeSrc = t[2]]
    /\ UNCHANGED << gv, gpu, layers, convVars >>

Feature ==
    \E l \in 1..Len(layers), index \in -1..numGeometries(gv) :
        FeatureOutOfRange(l, index) \/ CreateFeature(l, index)

\* feature.geometry.type
ReadType ==
    \E f \in 1..Len(feats) :
        /\ lastOp' = [NoOp EXCEPT !.op = "type", !.type = feats[f].type]
        /\ UNCHANGED << gv, gpu, tbl, calls, layers, feats, convVars >>

\* feature.properties
ReadProperties ==
    \E f \in 1..Len(feats) :
        /\ lastOp' = [NoOp EXCEPT !.op = "properties"]
        /\ UNCHANGED << gv, gpu, tbl, calls, layers, feats, convVars >>

\* the getter's assignment if the table's layers shared one resolver
StoreCoordinatesInSharedResolver(f, g) ==
    /\ layers' = [l \in 1..Len(layers) |-> g.r]
    /\ tbl' = g.w.tbl
    /\ calls' = g.w.calls
    /\ feats' = IF g.err = "none"
                THEN [feats EXCEPT ![f] = [@ EXCEPT !.has = TRUE, !.coords = g.coords,
                                                    !.obj = g.obj]]
                ELSE feats
    /\ lastOp' = [NoOp EXCEPT !.op = "coordinates", !.feat = f, !.layer = feats[f].layer,
                              !.index = feats[f].index, !.err = g.err,
                              !.coords = g.coords, !.obj = g.obj]
    /\ UNCHANGED << gv, gpu, convVars >>

\* cachedCoordinates = coordinatesResolver.getCoordinates(index), ended in g
StoreCoordinates(f, g) ==
    /\ layers' = [layers EXCEPT ![feats[f].layer] = g.r]
    /\ tbl' = g.w.tbl
    /\ calls' = g.w.calls
    /\ feats' = IF g.err = "none"
                THEN [feats EXCEPT ![f] = [@ EXCEPT !.has = TRUE, !.coords = g.coords,
                                                    !.obj = g.obj]]
                ELSE feats
    /\ lastOp' = [NoOp EXCEPT !.op = "coordinates", !.feat = f, !.layer = feats[f].layer,
                              !.index = feats[f].index, !.err = g.err,
                              !.coords = g.coords, !.obj = g.obj]
    /\ UNCHANGED << gv, gpu, convVars >>

\* a coordinates getter that asks the resolver again although the cache is set
CoordinatesNotCached(f) ==
    /\ feats[f].has
    /\ StoreCoordinates(f, getCoordinates(layers[feats[f].layer], feats[f].index, World,
                                          gv, gpu, feats[f].layer))

\* feature.geometry.coordinates when cachedCoordinates is set
CoordinatesCached(f) ==
    /\ feats[f].has
    /\ lastOp' = [NoOp EXCEPT !.op = "coordinates", !.feat = f, !.layer = feats[f].layer,
                              !.index = feats[f].index, !.coords = feats[f].coords,
                              !.obj = feats[f].obj, !.hit = TRUE]
    /\ UNCHANGED << gv, gpu, tbl, calls, layers, feats, convVars >>

\* feature.geometry.coordinates when it is not: ask the layer's resolver
CoordinatesResolved(f) ==
    /\ ~feats[f].has
    /\ StoreCoordinates(f, getCoordinates(layers[feats[f].layer], feats[f].index, World,
                                          gv, gpu, feats[f].layer))

ReadCoordinates ==
    \E f \in 1..Len(feats) : CoordinatesCached(f) \/ CoordinatesResolved(f)

\* the table's geometryVector getter
TableGeometryVector ==
    /\ LET w == resolveGeometryVector(World)
       IN  /\ tbl' = w.tbl /\ calls' = w.calls
           /\ lastOp' = [NoOp EXCEPT !.op = "geometryVector", !.err = w.err]
    /\ UNCHANGED << gv, gpu, layers, feats, convVars >>

\* DeferredGeometryColumn.getGeometryType(index), called on the column itself
ColumnGetGeometryType ==
    /\ tbl.column
    /\ calls.typeCalls < MaxColumnCalls
    /\ \E index \in -1..numGeometries(gv) :
        IF index < 0 \/ index >= numGeometries(gv)
        THEN /\ lastOp' = [NoOp EXCEPT !.op = "columnType", !.index = index,
                                       !.err = "RangeError"]
             /\ UNCHANGED << tbl, calls >>
        ELSE LET w == DeferredGetGeometryType(World, gv)
             IN  /\ tbl' = w.tbl
                 /\ calls' = w.calls
                 /\ lastOp' = [NoOp EXCEPT !.op = "columnType", !.index = index,
                                           !.type = geometryType(gv, index),
                                           !.typeSrc = IF tbl.decoded THEN "decoded"
                                                       ELSE "stream"]
    /\ UNCHANGED << gv, gpu, layers, feats, convVars >>

\* DeferredGeometryColumn.get(), called on the column itself
ColumnGet ==
    /\ tbl.column
    /\ calls.get < MaxColumnCalls
    /\ LET w == DeferredGet(World)
       IN  /\ tbl' = w.tbl /\ calls' = w.calls
           /\ lastOp' = [NoOp EXCEPT !.op = "columnGet", !.err = w.err]
    /\ UNCHANGED << gv, gpu, layers, feats, convVars >>

Next ==
    \/ GetLayer
    \/ Feature
    \/ ReadType
    \/ ReadProperties
    \/ ReadCoordinates

Spec == Init /\ [][Next]_vars

----------------------------------------------------------------------------
(* SpecColumn: a table built on a deferred column, and the column itself *)

\* one vector with a constant geometry-type stream, one with a type per feature
ColumnVectors ==
    { LayoutVector(<< Shape(POINT, << <<1>> >>), Shape(POINT, << <<1>> >>) >>,
                   TRUE, "plain"),
      LayoutVector(<< Shape(POLYGON, << <<3>> >>),
                      Shape(MULTIPOLYGON, << <<3>>, <<4, 3>> >>) >>, FALSE, "dictionary") }

\* the table, and the layer a first getLayer() gave
InitColumn ==
    /\ gv \in ColumnVectors
    /\ gpu \in BOOLEAN
    /\ tbl = DeferredTable
    /\ calls = NoCalls
    /\ layers = << NewResolver >>
    /\ feats = <<>>
    /\ lastOp = NoOp
    /\ IdleConv

NextColumn ==
    \/ Feature
    \/ ReadCoordinates
    \/ TableGeometryVector
    \/ ColumnGetGeometryType
    \/ ColumnGet

SpecColumn == InitColumn /\ [][NextColumn]_vars

----------------------------------------------------------------------------
(* SpecScan: one layer of a table on a vector of ScanFeatures points, read by
   statements of the form  layer.feature(i).geometry.coordinates  *)

ScanVector ==
    LayoutVector([k \in 1..ScanFeatures |-> Shape(POINT, << <<1>> >>)], TRUE, "plain")

InitScan ==
    /\ gv = ScanVector
    /\ gpu \in BOOLEAN
    /\ tbl = DirectTable
    /\ calls = NoCalls
    /\ layers = << NewResolver >>
    /\ feats = <<>>
    /\ lastOp = NoOp
    /\ IdleConv

\* the steps a scan takes from the index it read last: back, again, next, skip
\* one, jump
ScanDeltas == {-3, 0, 1, 2, 3}

\* the value the statement reads, from what getGeometryType and getCoordinates gave
ScanStore(index, typeSrc, g) ==
    /\ layers' = << g.r >>
    /\ tbl' = g.w.tbl
    /\ calls' = g.w.calls
    /\ lastOp' = [NoOp EXCEPT !.op = "coordinates", !.layer = 1, !.index = index,
                              !.err = g.err, !.coords = g.coords, !.obj = g.obj,
                              !.type = geometryType(gv, index), !.typeSrc = typeSrc]
    /\ UNCHANGED << gv, gpu, feats, convVars >>

\* layer.feature(index).geometry.coordinates: a fresh feature, read once and dropped
ScanRead ==
    \E d \in ScanDeltas :
        /\ lastOp.index + d >= 0
        /\ lastOp.index + d < numGeometries(gv)
        /\ ScanStore(lastOp.index + d, TableGetGeometryType(World, gv)[2],
                     getCoordinates(layers[1], lastOp.index + d,
                                    TableGetGeometryType(World, gv)[1], gv, gpu, 1))

NextScan == ScanRead

SpecScan == InitScan /\ [][NextScan]_vars

----------------------------------------------------------------------------
(* SpecRange: the three entry points that take a feature index, each called
   with indices inside and outside [0, numFeatures) *)

InitRange ==
    /\ gv \in ColumnVectors
    /\ gpu = FALSE
    /\ tbl \in {DirectTable, DeferredTable}
    /\ calls = NoCalls
    /\ layers = << NewResolver >>
    /\ feats = <<>>
    /\ lastOp = NoOp
    /\ IdleConv

\* convertSingleGeometry(geometryVector, index), called once on the vector itself
ConvertSingleOnce ==
    /\ cvSingle.err = "unset"
    /\ CallConvertSingleGeometry

NextRange ==
    \/ Feature
    \/ ReadCoordinates
    \/ ColumnGetGeometryType
    \/ ConvertSingleOnce

SpecRange == InitRange /\ [][NextRange]_vars

----------------------------------------------------------------------------
(* SpecOnce: each converter called once on every legal vector *)

\* convertGeometryVector(geometryVector), called once on the vector itself
ConvertVectorOnce ==
    /\ cvBulk.err = "unset"
    /\ CallConvertGeometryVector

NextOnce ==
    \/ ConvertSingleOnce
    \/ ConvertVectorOnce

SpecOnce == InitConv /\ [][NextOnce]_vars

----------------------------------------------------------------------------
(* SpecMorton: each converter called once on every legal Morton vector, with
   and without its Morton settings *)

MortonVectors ==
    { v \in LegalVectors : v.vertexBufferType = MORTON }
    \cup { [v EXCEPT !.hasMorton = FALSE] : v \in {w \in LegalVectors : w.vertexBufferType = MORTON} }

InitMorton ==
    /\ gv \in MortonVectors
    /\ IdleFacade
    /\ cvIndex = 0
    /\ cvSingle = [err |-> "unset", coords |-> <<>>, bulk |-> 0]
    /\ cvBulk = [err |-> "unset", geoms |-> <<>>]
    /\ IdleCodec

SpecMorton == InitMorton /\ [][NextOnce]_vars

----------------------------------------------------------------------------
(* SpecFault: tables whose vector cannot be resolved or decoded *)

MaxAttempts == 3

\* a Morton-encoded vector of two line strings, and the same vector without its
\* Morton settings: decoding any of its geometries throws
FaultVectors ==
    { LayoutVector(<< Shape(LINESTRING, << <<2>> >>), Shape(LINESTRING, << <<2>> >>) >>,
                   TRUE, "morton"),
      [LayoutVector(<< Shape(LINESTRING, << <<2>> >>), Shape(LINESTRING, << <<2>> >>) >>,
                    TRUE, "morton") EXCEPT !.hasMorton = FALSE] }

InitFault ==
    /\ gv \in FaultVectors
    /\ gpu \in BOOLEAN
    /\ tbl \in {DirectTable, DeferredTable, CorruptTable}
    /\ calls = NoCalls
    /\ layers = << NewResolver >>
    /\ feats = <<>>
    /\ lastOp = NoOp
    /\ IdleConv

\* feature.geometry.coordinates, read again after a read that threw
ReadCoordinatesAgain ==
    /\ layers[1].count < MaxAttempts
    /\ ReadCoordinates

NextFault ==
    \/ Feature
    \/ ReadCoordinatesAgain

SpecFault == InitFault /\ [][NextFault]_vars

----------------------------------------------------------------------------
(* Integer streams: the cursor, varint, zig-zag, big-endian int32, stream    *)
(* metadata and the integer stream decoder.  A buffer is a sequence of bytes *)
(* and a decoder returns [vs, offset]: the values and the cursor after them. *)

\* position of x in the enumeration e, counted from 0
Ordinal(e, x) == (CHOOSE i \in 1..Len(e) : e[i] = x) - 1

PhysicalStreamType == << "PRESENT", "DATA", "OFFSET", "LENGTH" >>
LogicalStreamType == << "NONE", "VERTEX", "MORTON", "STRING", "VAR_BINARY" >>
LogicalLevelTechnique ==
    << "NONE", "DELTA", "COMPONENTWISE_DELTA", "RLE", "MORTON", "PFOR", "PFOR_DELTA" >>
PhysicalLevelTechnique == << "NONE", "FAST_PFOR", "VARINT" >>

RECURSIVE encodeVarint(_)
\* one unsigned varint: 7 bits per byte, the continuation bit in the MSB
encodeVarint(u) ==
    IF u < 128 THEN << u >> ELSE << (u % 128) + 128 >> \o encodeVarint(u \div 128)

encodeVarintInt32(vs) == Flat([i \in 1..Len(vs) |-> encodeVarint(vs[i])])

\* the varint read at the cursor, least significant group first
VarintFrom(byte, rest) ==
    [v |-> (byte - 128) + 128 * rest.v, offset |-> rest.offset]

RECURSIVE decodeVarint(_, _)
decodeVarint(buffer, at) ==
    IF At(buffer, at) < 128 THEN [v |-> At(buffer, at), offset |-> at + 1]
    ELSE VarintFrom(At(buffer, at), decodeVarint(buffer, at + 1))

Prepend(first, rest) == [vs |-> << first >> \o rest.vs, offset |-> rest.offset]

RECURSIVE decodeVarintInt32(_, _, _)
\* numValues consecutive varints; the cursor moves by the bytes they occupy
decodeVarintInt32(buffer, at, numValues) ==
    IF numValues <= 0 THEN [vs |-> <<>>, offset |-> at]
    ELSE Prepend(decodeVarint(buffer, at).v,
                 decodeVarintInt32(buffer, decodeVarint(buffer, at).offset, numValues - 1))

\* (n << 1) ^ (n >> 31) and its inverse
encodeZigZag(n) == IF n >= 0 THEN 2 * n ELSE -2 * n - 1

decodeZigZag(u) == IF u % 2 = 0 THEN u \div 2 ELSE -((u + 1) \div 2)

\* a negative int32 without its sign bit
WithoutSignBit(v) == IF v < 0 THEN (v + 2147483647) + 1 ELSE v

\* the four bytes of an int32, most significant first
encodeInt32BE(v) ==
    << (WithoutSignBit(v) \div 16777216) + (IF v < 0 THEN 128 ELSE 0),
       (WithoutSignBit(v) \div 65536) % 256,
       (WithoutSignBit(v) \div 256) % 256,
       WithoutSignBit(v) % 256 >>

decodeInt32BE(buffer, at) ==
    IF At(buffer, at) >= 128
    THEN (((At(buffer, at) - 128) * 16777216 + At(buffer, at + 1) * 65536
            + At(buffer, at + 2) * 256 + At(buffer, at + 3)) - 2147483647) - 1
    ELSE At(buffer, at) * 16777216 + At(buffer, at + 1) * 65536
            + At(buffer, at + 2) * 256 + At(buffer, at + 3)

\* DELTA: the differences of consecutive values, and their prefix sums
encodeDelta(vs) == [i \in 1..Len(vs) |-> vs[i] - (IF i = 1 THEN 0 ELSE vs[i - 1])]

decodeDelta(ds) == Tail(PrefixSums(ds, 0))

RECURSIVE RunLengths(_)
\* the lengths of the runs of equal values
RunLengths(vs) ==
    IF vs = <<>> THEN <<>>
    ELSE IF Len(vs) >= 2 /\ vs[2] = vs[1]
    THEN << Head(RunLengths(Tail(vs))) + 1 >> \o Tail(RunLengths(Tail(vs)))
    ELSE << 1 >> \o RunLengths(Tail(vs))

\* the value of each run
RunValues(vs) ==
    [r \in 1..Len(RunLengths(vs)) |-> vs[SumSeq(SubSeq(RunLengths(vs), 1, r))]]

\* encodeUnsignedRleInt32: the run lengths followed by the run values
encodeUnsignedRleInt32(vs) ==
    [data |-> RunLengths(vs) \o RunValues(vs), runs |-> Len(RunLengths(vs))]

\* RLE: `runs` lengths followed by numValues - runs values, expanded
decodeRle(data, runs) ==
    Flat([r \in 1..runs |-> [k \in 1..data[r] |-> data[runs + r]]])

----------------------------------------------------------------------------
(* Stream metadata *)

StreamMetadata(pst, lst, l1, l2, phys, numValues) ==
    [ physicalStreamType |-> pst, logicalStreamType |-> lst,
      logicalLevelTechnique1 |-> l1, logicalLevelTechnique2 |-> l2,
      physicalLevelTechnique |-> phys,
      numValues |-> numValues, byteLength |-> 0, decompressedCount |-> numValues,
      runs |-> 0, numRleValues |-> 0, numBits |-> 0, coordinateShift |-> 0 ]

IsRle(m) == m.logicalLevelTechnique1 = "RLE" \/ m.logicalLevelTechnique2 = "RLE"

IsMorton(m) == m.logicalLevelTechnique1 = "MORTON"

\* the type byte, the techniques byte, numValues, byteLength, and for RLE
\* streams runs and numRleValues
encodeStreamMetadata(m) ==
    << Ordinal(PhysicalStreamType, m.physicalStreamType)
         + 16 * Ordinal(LogicalStreamType, m.logicalStreamType),
       32 * Ordinal(LogicalLevelTechnique, m.logicalLevelTechnique1)
         + 4 * Ordinal(LogicalLevelTechnique, m.logicalLevelTechnique2)
         + Ordinal(PhysicalLevelTechnique, m.physicalLevelTechnique) >>
    \o encodeVarint(m.numValues)
    \o encodeVarint(m.byteLength)
    \o (IF IsRle(m) THEN encodeVarint(m.runs) \o encodeVarint(m.numRleValues) ELSE <<>>)

\* buildEncodedStream: the metadata, with the payload's length, then the payload
buildEncodedStream(m, encoded) ==
    encodeStreamMetadata([m EXCEPT !.byteLength = Len(encoded)]) \o encoded

\* createStream(type, data, {logical, technique, count})
createStream(pst, data, lst, technique, count) ==
    buildEncodedStream(StreamMetadata(pst, lst, "NONE", "NONE", technique, count), data)

\* the fields packed in the first two bytes
MetadataHead(buffer, at) ==
    StreamMetadata(PhysicalStreamType[(At(buffer, at) % 16) + 1],
                   LogicalStreamType[(At(buffer, at) \div 16) + 1],
                   LogicalLevelTechnique[(At(buffer, at + 1) \div 32) + 1],
                   LogicalLevelTechnique[((At(buffer, at + 1) \div 4) % 8) + 1],
                   PhysicalLevelTechnique[(At(buffer, at + 1) % 4) + 1],
                   0)

\* the metadata of a Morton stream: numBits and coordinateShift follow
MortonMetadata(m, numBits, coordinateShift) ==
    [meta |-> [m EXCEPT !.numBits = numBits.v, !.coordinateShift = coordinateShift.v],
     offset |-> coordinateShift.offset]

\* the metadata of an RLE stream: runs and numRleValues follow
RleMetadata(m, runs, numRleValues) ==
    [meta |-> [m EXCEPT !.runs = runs.v, !.numRleValues = numRleValues.v,
                        !.decompressedCount = numRleValues.v],
     offset |-> numRleValues.offset]

MetadataExtras(buffer, m, at) ==
    IF IsRle(m)
    THEN RleMetadata(m, decodeVarint(buffer, at),
                     decodeVarint(buffer, decodeVarint(buffer, at).offset))
    ELSE IF IsMorton(m)
    THEN MortonMetadata(m, decodeVarint(buffer, at),
                        decodeVarint(buffer, decodeVarint(buffer, at).offset))
    ELSE [meta |-> m, offset |-> at]

MetadataCounts(buffer, m, numValues, byteLength) ==
    MetadataExtras(buffer,
                   [m EXCEPT !.numValues = numValues.v, !.decompressedCount = numValues.v,
                             !.byteLength = byteLength.v],
                   byteLength.offset)

\* decodeStreamMetadata(tile, offset): [meta, offset]
decodeStreamMetadata(buffer, at) ==
    MetadataCounts(buffer, MetadataHead(buffer, at), decodeVarint(buffer, at + 2),
                   decodeVarint(buffer, decodeVarint(buffer, at + 2).offset))

----------------------------------------------------------------------------
(* Integer stream encoder and decoder *)

\* the values the physical layer stores for a logical cascade
encodeLogical(vs, m, isSigned) ==
    IF m.logicalLevelTechnique1 = "DELTA"
    THEN [i \in 1..Len(vs) |-> encodeZigZag(encodeDelta(vs)[i])]
    ELSE IF isSigned THEN [i \in 1..Len(vs) |-> encodeZigZag(vs[i])]
    ELSE vs

encodePhysical(vs, m) ==
    IF m.physicalLevelTechnique = "VARINT" THEN encodeVarintInt32(vs)
    ELSE Flat([i \in 1..Len(vs) |-> encodeInt32BE(vs[i])])

\* encodeIntStream(values, metadata, isSigned): the payload bytes
encodeIntStream(vs, m, isSigned) == encodePhysical(encodeLogical(vs, m, isSigned), m)

\* physical layer: numValues integers; the cursor moves by the bytes consumed
decodePhysical(buffer, at, m) ==
    IF m.physicalLevelTechnique = "VARINT"
    THEN decodeVarintInt32(buffer, at, m.numValues)
    ELSE [vs |-> [i \in 1..m.numValues |-> decodeInt32BE(buffer, at + 4 * (i - 1))],
          offset |-> at + 4 * m.numValues]

\* logical cascade over the integers of the physical layer
decodeLogical(vs, m, isSigned) ==
    IF m.logicalLevelTechnique1 = "DELTA"
    THEN decodeDelta([i \in 1..Len(vs) |-> decodeZigZag(vs[i])])
    ELSE IF m.logicalLevelTechnique1 = "RLE"
    THEN IF isSigned
         THEN [i \in 1..m.numRleValues |-> decodeZigZag(decodeRle(vs, m.runs)[i])]
         ELSE decodeRle(vs, m.runs)
    ELSE IF isSigned THEN [i \in 1..Len(vs) |-> decodeZigZag(vs[i])]
    ELSE vs

WithValues(r, vs) == [vs |-> vs, offset |-> r.offset]

DecodedLogical(r, m, isSigned) == WithValues(r, decodeLogical(r.vs, m, isSigned))

\* decodeIntStream(tile, offset, metadata, isSigned)
decodeIntStream(buffer, at, m, isSigned) ==
    DecodedLogical(decodePhysical(buffer, at, m), m, isSigned)

\* an offset buffer that lacks the leading 0
OffsetsWithoutZero(r) == WithValues(r, Tail(PrefixSums(r.vs, 0)))

\* the prefix sums of the lengths, after a leading 0
OffsetBuffer(r) == WithValues(r, PrefixSums(r.vs, 0))

\* decodeLengthStreamToOffsetBuffer(tile, offset, metadata)
decodeLengthStreamToOffsetBuffer(buffer, at, m) ==
    OffsetBuffer(decodeIntStream(buffer, at, m, FALSE))

----------------------------------------------------------------------------
(* SpecStream: two encoded streams concatenated in one buffer and decoded   *)
(* one after the other through one cursor                                   *)

\* largest number of values of a generated stream
MaxStreamValues == 2

createGeometryStreamMetadata(numValues) ==
    StreamMetadata("DATA", "VERTEX", "DELTA", "NONE", "VARINT", numValues)

createMortonGeometryStreamMetadata(numValues) ==
    StreamMetadata("DATA", "MORTON", "MORTON", "NONE", "VARINT", numValues)

encodeGeometryStream(vs) ==
    buildEncodedStream(createGeometryStreamMetadata(Len(vs)),
                       encodeIntStream(vs, createGeometryStreamMetadata(Len(vs)), TRUE))

\* the metadata, numBits and coordinateShift, then the payload
MortonStream(m, mortonInfo, encoded, byteLength) ==
    encodeStreamMetadata([m EXCEPT !.byteLength = byteLength]) \o mortonInfo \o encoded

\* a Morton stream whose byteLength is the number of values
encodeMortonGeometryStreamCountingValues(vs, numBits, coordinateShift) ==
    MortonStream(createMortonGeometryStreamMetadata(Len(vs)),
                 encodeVarintInt32(<< numBits, coordinateShift >>),
                 encodeIntStream(vs, createMortonGeometryStreamMetadata(Len(vs)), FALSE),
                 Len(vs))

encodeMortonGeometryStream(vs, numBits, coordinateShift) ==
    MortonStream(createMortonGeometryStreamMetadata(Len(vs)),
                 encodeVarintInt32(<< numBits, coordinateShift >>),
                 encodeIntStream(vs, createMortonGeometryStreamMetadata(Len(vs)), FALSE),
                 Len(encodeIntStream(vs, createMortonGeometryStreamMetadata(Len(vs)), FALSE)))

encodeLengthStream(vs) ==
    createStream("LENGTH", encodeVarintInt32(vs), "VAR_BINARY", "VARINT", Len(vs))

\* the metadata encodeDictionaryIdStream builds
DictionaryIdMetadata(vs, rle, encodedData) ==
    [StreamMetadata("OFFSET", "STRING", "RLE", "NONE", "VARINT", Len(rle.data))
        EXCEPT !.byteLength = Len(encodedData), !.decompressedCount = Len(vs),
               !.runs = rle.runs, !.numRleValues = Len(vs)]

encodeDictionaryIdStream(vs) ==
    buildEncodedStream(DictionaryIdMetadata(vs, encodeUnsignedRleInt32(vs),
                           encodeVarintInt32(encodeUnsignedRleInt32(vs).data)),
                       encodeVarintInt32(encodeUnsignedRleInt32(vs).data))

\* a DATA stream of raw big-endian int32
encodeRawStream(vs) ==
    createStream("DATA", encodePhysical(vs, StreamMetadata("DATA", "NONE", "NONE", "NONE",
                                                           "NONE", Len(vs))),
                 "NONE", "NONE", Len(vs))

\* toOffsets(values): offsets[0] = 0, offsets[i + 1] = offsets[i] + values[i]
toOffsets(vs) == [i \in 1..(Len(vs) + 1) |-> SumSeq(SubSeq(vs, 1, i - 1))]

StreamKinds == {"geometry", "morton", "length", "dictionaryId", "raw"}

\* signed coordinates for the kinds decoded as signed, ids and lengths that
\* take one and two varint bytes for the others
StreamValueSet(kind) ==
    IF kind \in {"geometry", "raw"} THEN {-3, 0, 200} ELSE {0, 5, 300}

StreamInput(kind, vs) == [kind |-> kind, vs |-> vs]

StreamInputs ==
    { StreamInput(kind, vs) :
        kind \in StreamKinds,
        vs \in UNION { [1..n -> {-3, 0, 5, 200, 300}] : n \in 0..MaxStreamValues } }

LegalStreamInputs ==
    { i \in StreamInputs : \A k \in 1..Len(i.vs) : i.vs[k] \in StreamValueSet(i.kind) }
    \cup { StreamInput("length", << 5, 0, 0, 3 >>),
           StreamInput("length", << 2147483647 >>),
           StreamInput("dictionaryId", << 5, 5, 5, 5, 5 >>) }

\* the encoded stream of an input: metadata and payload
encodeStream(i) ==
    CASE i.kind = "geometry" -> encodeGeometryStream(i.vs)
      [] i.kind = "morton" -> encodeMortonGeometryStream(i.vs, 16, 0)
      [] i.kind = "length" -> encodeLengthStream(i.vs)
      [] i.kind = "dictionaryId" -> encodeDictionaryIdStream(i.vs)
      [] OTHER -> encodeRawStream(i.vs)

\* no geometry vector is held by the specifications of the codecs
NoVector == LayoutVector(<< >>, TRUE, "plain")

IdleGeometry ==
    /\ gv = NoVector
    /\ IdleFacade
    /\ cvIndex = 0
    /\ cvSingle = [err |-> "unset", coords |-> <<>>, bulk |-> 0]
    /\ cvBulk = [err |-> "unset", geoms |-> <<>>]

geometryVars == << gv, cvIndex, cvSingle, cvBulk, gpu, tbl, calls, layers, feats, lastOp >>

\* concatenateBuffers(stream1, stream2) and new IntWrapper(0)
InitStream ==
    /\ values \in [1..2 -> LegalStreamInputs]
    /\ tile = encodeStream(values[1]) \o encodeStream(values[2])
    /\ offset = 0
    /\ decoded = <<>>
    /\ IdleGeometry

\* the stream whose metadata was read last
Current == decoded[Len(decoded)]

\* const meta = decodeStreamMetadata(combined, offset); const start = offset.get()
DecodeStreamMetadata ==
    /\ Len(decoded) < Len(values)
    /\ decoded # <<>> => Current.done
    /\ offset' = decodeStreamMetadata(tile, offset).offset
    /\ decoded' = Append(decoded, [meta |-> decodeStreamMetadata(tile, offset).meta,
                                   start |-> decodeStreamMetadata(tile, offset).offset,
                                   done |-> FALSE, out |-> <<>>, end |-> 0])
    /\ UNCHANGED << values, tile >>
    /\ UNCHANGED geometryVars

\* the payload was decoded into r
StreamDecoded(r) ==
    /\ offset' = r.offset
    /\ decoded' = [decoded EXCEPT ![Len(decoded)] =
                       [@ EXCEPT !.done = TRUE, !.out = r.vs, !.end = r.offset]]
    /\ UNCHANGED << values, tile >>
    /\ UNCHANGED geometryVars

\* decodeIntStream(combined, offset, meta, isSigned)
DecodeIntStream ==
    /\ decoded # <<>> /\ ~Current.done
    /\ Current.meta.physicalStreamType # "LENGTH"
    /\ StreamDecoded(decodeIntStream(tile, offset, Current.meta,
                                     values[Len(decoded)].kind = "geometry"))

\* decodeLengthStreamToOffsetBuffer(stream, offset, metadata)
DecodeLengthStream ==
    /\ decoded # <<>> /\ ~Current.done
    /\ Current.meta.physicalStreamType = "LENGTH"
    /\ StreamDecoded(decodeLengthStreamToOffsetBuffer(tile, offset, Current.meta))

NextStream ==
    \/ DecodeStreamMetadata
    \/ DecodeIntStream
    \/ DecodeLengthStream

SpecStream == InitStream /\ [][NextStream]_vars

----------------------------------------------------------------------------
(* FastPFOR: 32-bit words *)

BLOCK_SIZE == 256
DEFAULT_PAGE_SIZE == 65536
OVERHEAD_OF_EACH_EXCEPT == 8

greatestMultiple(value, factor) == value - (value % factor)

\* normalizePageSize(DEFAULT_PAGE_SIZE)
PAGE_SIZE == greatestMultiple(DEFAULT_PAGE_SIZE, BLOCK_SIZE)

\* a 32-bit word: the tuple of its bits
Word(f) == SubSeq(f, 1, 32)

\* value >>> 0: the 32 bits of an int32, lowest first
Bits32(value) ==
    Word([i \in 1..32 |-> IF i = 32 THEN (IF value < 0 THEN 1 ELSE 0)
                          ELSE (value \div 2^(i - 1)) % 2])

RECURSIVE BitsValue(_, _)
BitsValue(word, n) ==
    IF n = 0 THEN 0 ELSE word[n] * 2^(n - 1) + BitsValue(word, n - 1)

\* word | 0: the int32 of 32 bits
ToInt32(word) ==
    IF word[32] = 1 THEN (BitsValue(word, 31) - 2147483647) - 1
    ELSE BitsValue(word, 31)

ZeroWord == Word([i \in 1..32 |-> 0])

\* MASKS[bitWidth]
MASKS(bitWidth) == Word([i \in 1..32 |-> IF i <= bitWidth THEN 1 ELSE 0])

\* a & b
BitAnd(a, b) == Word([i \in 1..32 |-> a[i] * b[i]])

\* a | b
BitOr(a, b) == Word([i \in 1..32 |-> IF a[i] + b[i] > 0 THEN 1 ELSE 0])

\* a << n
ShiftLeft(a, n) == Word([i \in 1..32 |-> IF i > n THEN a[i - n] ELSE 0])

\* a >>> n
ShiftRightUnsigned(a, n) == Word([i \in 1..32 |-> IF i + n <= 32 THEN a[i + n] ELSE 0])

\* b0 | (b1 << 8) | (b2 << 16) | (b3 << 24) | 0
WordOfBytes(b0, b1, b2, b3) ==
    16777216 * (IF b3 >= 128 THEN b3 - 256 ELSE b3) + 65536 * b2 + 256 * b1 + b0

\* whole words of a byte container, four bytes per int32, lowest byte first
WordsOfBytes(bytes) ==
    [i \in 1..(Len(bytes) \div 4) |->
        WordOfBytes(bytes[4 * i - 3], bytes[4 * i - 2], bytes[4 * i - 1], bytes[4 * i])]

\* 32 - Math.clz32(value): the sign bit of a negative value not counted
bitsOfMagnitude(value) ==
    IF value < 0 THEN 31
    ELSE IF value = 0 THEN 0
    ELSE CHOOSE n \in 1..31 : value \div 2^(n - 1) = 1

\* 32 - Math.clz32(value >>> 0)
bits(value) ==
    IF value < 0 THEN 32
    ELSE IF value = 0 THEN 0
    ELSE CHOOSE n \in 1..31 : value \div 2^(n - 1) = 1

----------------------------------------------------------------------------
(* FastPFOR encoder *)

\* a slot of an Int32Array of the workspace: slots never written hold `stale`
Slot(array, i, stale) == IF i < Len(array) THEN array[i + 1] ELSE stale

\* fastPack32: one value of the loop; st = i, words written, bitOffset, currentWord
PackValue(st, value, bitWidth) ==
    IF st.bitOffset + bitWidth <= 32
    THEN IF st.bitOffset + bitWidth = 32
         THEN [i |-> st.i + 1,
               words |-> Append(st.words,
                   ToInt32(BitOr(st.currentWord, ShiftLeft(value, st.bitOffset)))),
               bitOffset |-> 0,
               currentWord |-> ZeroWord]
         ELSE [i |-> st.i + 1,
               words |-> st.words,
               bitOffset |-> st.bitOffset + bitWidth,
               currentWord |-> BitOr(st.currentWord, ShiftLeft(value, st.bitOffset))]
    ELSE [i |-> st.i + 1,
          words |-> Append(st.words,
              ToInt32(BitOr(st.currentWord,
                  ShiftLeft(BitAnd(value, MASKS(32 - st.bitOffset)), st.bitOffset)))),
          bitOffset |-> bitWidth - (32 - st.bitOffset),
          currentWord |-> ShiftRightUnsigned(value, 32 - st.bitOffset)]

\* for (let i = 0; i < 32; i++)
RECURSIVE PackLoop(_, _, _, _, _)
PackLoop(inValues, inPos, bitWidth, stale, st) ==
    IF st.i = 32 THEN st
    ELSE PackLoop(inValues, inPos, bitWidth, stale,
             PackValue(st, BitAnd(Bits32(Slot(inValues, inPos + st.i, stale)),
                                  MASKS(bitWidth)), bitWidth))

\* fastPack32: the last, partly filled word
PackFlush(st) ==
    IF st.bitOffset # 0 THEN Append(st.words, ToInt32(st.currentWord)) ELSE st.words

\* the words fastPack32 writes at outPos
fastPack32(inValues, inPos, bitWidth, stale) ==
    IF bitWidth = 0 THEN << >>
    ELSE IF bitWidth = 32
    THEN [i \in 1..32 |-> Slot(inValues, inPos + i - 1, stale)]
    ELSE PackFlush(PackLoop(inValues, inPos, bitWidth, stale,
             [i |-> 0, words |-> << >>, bitOffset |-> 0, currentWord |-> ZeroWord]))

\* computeBestBitWidthPlan: freqs[bits(inValues[k])]++
BlockBits(inValues, pos) ==
    SubSeq([k \in 1..BLOCK_SIZE |-> bits(inValues[pos + k])], 1, BLOCK_SIZE)

Freqs(widths) ==
    [b \in 0..32 |-> Cardinality({ k \in 1..Len(widths) : widths[k] = b })]

\* let maxBits = 32; while (freqs[maxBits] === 0) maxBits--
MaxBits(freqs) ==
    CHOOSE m \in 0..32 : freqs[m] # 0 /\ \A j \in (m + 1)..32 : freqs[j] = 0

ThisCost(cExcept, maxBits, b) ==
    cExcept * OVERHEAD_OF_EACH_EXCEPT + cExcept * (maxBits - b) + b * BLOCK_SIZE + 8
        - (IF maxBits - b = 1 THEN cExcept ELSE 0)

PlanBetter(p, b, cExcept, thisCost) ==
    IF thisCost < p.bestCost
    THEN [cExcept |-> cExcept, bestCost |-> thisCost, bestBitWidth |-> b,
          bestCExcept |-> cExcept]
    ELSE [p EXCEPT !.cExcept = cExcept]

RECURSIVE PlanLoop(_, _, _, _)
PlanTry(freqs, maxBits, b, p, cExcept) ==
    IF cExcept = BLOCK_SIZE THEN p
    ELSE PlanLoop(freqs, maxBits, b - 1,
             PlanBetter(p, b, cExcept, ThisCost(cExcept, maxBits, b)))

PlanLoop(freqs, maxBits, b, p) ==
    IF b < 0 THEN p ELSE PlanTry(freqs, maxBits, b, p, p.cExcept + freqs[b + 1])

Plan(freqs, maxBits) ==
    PlanLoop(freqs, maxBits, maxBits - 1,
        [cExcept |-> 0, bestCost |-> maxBits * BLOCK_SIZE, bestBitWidth |-> maxBits,
         bestCExcept |-> 0])

BestOf(p, maxBits) ==
    [bitWidth |-> p.bestBitWidth, cExcept |-> p.bestCExcept, maxBits |-> maxBits]

BestPlan(freqs) == BestOf(Plan(freqs, MaxBits(freqs)), MaxBits(freqs))

\* best[0], best[1], best[2] for the block at pos
computeBestBitWidthPlan(inValues, pos) == BestPlan(Freqs(BlockBits(inValues, pos)))

\* ws.byteContainer[byteContainerPos] = byteValue & 0xff
writeByte(byteContainer, byteValue) == Append(byteContainer, byteValue % 256)

writeBlockHeader(byteContainer, bitWidth, cExcept, maxBits) ==
    IF cExcept > 0
    THEN writeByte(writeByte(writeByte(byteContainer, bitWidth), cExcept), maxBits)
    ELSE writeByte(writeByte(byteContainer, bitWidth), cExcept)

\* (value >>> bitWidth) | 0
HighBits(value, bitWidth) == ToInt32(ShiftRightUnsigned(Bits32(value), bitWidth))

\* the positions k of the block with value >>> bitWidth !== 0, in order
ExceptionPositions(inValues, blockPos, bitWidth) ==
    LET IsException(k) == HighBits(inValues[blockPos + k + 1], bitWidth) # 0
    IN  SelectSeq([k \in 1..BLOCK_SIZE |-> k - 1], IsException)

\* dataToBePacked[exceptionIndex][dataPointers[exceptionIndex]++] = (value >>> bitWidth) | 0
StoreExceptions(dataToBePacked, inValues, blockPos, bitWidth, exceptionIndex, positions) ==
    IF exceptionIndex = 1 THEN dataToBePacked
    ELSE [dataToBePacked EXCEPT ![exceptionIndex] =
              @ \o [n \in 1..Len(positions) |->
                       HighBits(inValues[blockPos + positions[n] + 1], bitWidth)]]

WriteBytes(byteContainer, positions) ==
    byteContainer \o [n \in 1..Len(positions) |-> positions[n] % 256]

RecordedExceptions(pg, inValues, blockPos, bitWidth, cExcept, exceptionIndex, positions) ==
    IF Len(positions) # cExcept
    THEN [pg EXCEPT !.err = "Error"]
    ELSE [pg EXCEPT !.byteContainer = WriteBytes(pg.byteContainer, positions),
                    !.dataToBePacked = StoreExceptions(pg.dataToBePacked, inValues,
                                           blockPos, bitWidth, exceptionIndex, positions)]

recordBlockExceptions(pg, inValues, blockPos, bitWidth, cExcept, exceptionIndex) ==
    IF cExcept = 0 THEN pg
    ELSE RecordedExceptions(pg, inValues, blockPos, bitWidth, cExcept, exceptionIndex,
             ExceptionPositions(inValues, blockPos, bitWidth))

RECURSIVE PackGroups(_, _, _, _)
PackGroups(inValues, blockPos, bitWidth, k) ==
    IF k >= BLOCK_SIZE THEN << >>
    ELSE fastPack32(inValues, blockPos + k, bitWidth, 0)
             \o PackGroups(inValues, blockPos, bitWidth, k + 32)

\* the words packBlock writes at state.outPos
packBlock(inValues, blockPos, bitWidth) == PackGroups(inValues, blockPos, bitWidth, 0)

PackedBlock(pg, inValues, blockPos, bitWidth) ==
    IF pg.err # "none" THEN pg
    ELSE [pg EXCEPT !.out = @ \o packBlock(inValues, blockPos, bitWidth)]

HeaderWritten(pg, best) ==
    [pg EXCEPT !.byteContainer =
         writeBlockHeader(pg.byteContainer, best.bitWidth, best.cExcept, best.maxBits)]

\* encodePage: one block; exceptionIndex = maxBits - b
EncodeBlockAt(pg, inValues, blockPos, best, exceptionIndex) ==
    IF best.cExcept > 0 /\ (exceptionIndex < 1 \/ exceptionIndex > 32)
    THEN [pg EXCEPT !.err = "Error"]
    ELSE PackedBlock(
             recordBlockExceptions(HeaderWritten(pg, best), inValues, blockPos,
                 best.bitWidth, best.cExcept, exceptionIndex),
             inValues, blockPos, best.bitWidth)

EncodeBlock(pg, inValues, blockPos, best) ==
    EncodeBlockAt(pg, inValues, blockPos, best,
        IF best.cExcept > 0 THEN best.maxBits - best.bitWidth ELSE 0)

\* for (; tmpInPos < finalInPos; ...): a loop that leaves the last block out
RECURSIVE PageLoopShort(_, _, _, _)
PageLoopShort(pg, inValues, tmpInPos, finalInPos) ==
    IF tmpInPos >= finalInPos \/ pg.err # "none" THEN [pg EXCEPT !.inPos = tmpInPos]
    ELSE PageLoopShort(EncodeBlock(pg, inValues, tmpInPos,
                           computeBestBitWidthPlan(inValues, tmpInPos)),
                       inValues, tmpInPos + BLOCK_SIZE, finalInPos)

RECURSIVE PageLoop(_, _, _, _)

PageLoop(pg, inValues, tmpInPos, finalInPos) ==
    IF tmpInPos > finalInPos \/ pg.err # "none" THEN [pg EXCEPT !.inPos = tmpInPos]
    ELSE PageLoop(EncodeBlock(pg, inValues, tmpInPos,
                      computeBestBitWidthPlan(inValues, tmpInPos)),
                  inValues, tmpInPos + BLOCK_SIZE, finalInPos)

\* while ((byteContainerPos & 3) !== 0) writeByte(ws, byteContainerPos, 0)
padByteContainerToInt32(byteContainer) ==
    byteContainer \o [n \in 1..((4 - (Len(byteContainer) % 4)) % 4) |-> 0]

writeByteContainerInts(byteContainer) == WordsOfBytes(byteContainer)

\* bitmap |= (k === 32) ? 0x80000000 : (1 << (k - 1)), for dataPointers[k] !== 0
computeExceptionBitmap(dataToBePacked) ==
    ToInt32(Word([k \in 1..32 |-> IF k >= 2 /\ Len(dataToBePacked[k]) # 0 THEN 1 ELSE 0]))

RECURSIVE PackExceptions(_, _, _, _)
PackExceptions(exceptions, k, stale, j) ==
    IF j >= Len(exceptions) THEN << >>
    ELSE fastPack32(exceptions, j, k, stale) \o PackExceptions(exceptions, k, stale, j + 32)

KeepingOverflow(words, size, k) == words

\* outPos -= ((overflow * k) >>> 5)
WithoutOverflow(words, size, k) ==
    SubSeq(words, 1, Len(words) - ((((size + 31) \div 32) * 32 - size) * k) \div 32)

ExceptionStream(exceptions, k, stale) ==
    IF Len(exceptions) = 0 THEN << >>
    ELSE << Len(exceptions) >>
             \o WithoutOverflow(PackExceptions(exceptions, k, stale, 0), Len(exceptions), k)

RECURSIVE ExceptionStreams(_, _, _)
ExceptionStreams(dataToBePacked, k, stale) ==
    IF k > 32 THEN << >>
    ELSE ExceptionStream(dataToBePacked[k], k, stale)
             \o ExceptionStreams(dataToBePacked, k + 1, stale)

writeExceptionStreams(dataToBePacked, stale) ==
    << computeExceptionBitmap(dataToBePacked) >> \o ExceptionStreams(dataToBePacked, 2, stale)

\* the words of a page: header, packed blocks, byteSize, byte container, exceptions
PageWords(pg, stale) ==
    << Len(pg.out) + 1 >> \o pg.out \o << Len(pg.byteContainer) >>
        \o writeByteContainerInts(padByteContainerToInt32(pg.byteContainer))
        \o writeExceptionStreams(pg.dataToBePacked, stale)

PageWritten(pg, stale) ==
    [out |-> IF pg.err = "none" THEN PageWords(pg, stale) ELSE << >>,
     inPos |-> pg.inPos, err |-> pg.err]

\* dataPointers.fill(0); byteContainerPos = 0
NewPage ==
    [byteContainer |-> << >>, dataToBePacked |-> [k \in 1..32 |-> << >>], out |-> << >>,
     inPos |-> 0, err |-> "none"]

encodePage(inValues, inPos, thisSize, stale) ==
    PageWritten(PageLoop(NewPage, inValues, inPos, inPos + thisSize - BLOCK_SIZE), stale)

Min2(a, b) == IF a < b THEN a ELSE b

RECURSIVE headlessEncode(_, _, _, _)
PageAppended(page, inValues, finalInPos, stale) ==
    IF page.err # "none" THEN page
    ELSE [headlessEncode(inValues, page.inPos, finalInPos, stale) EXCEPT !.out = page.out \o @]

\* while (inPos.get() !== finalInPos) encodePage(...)
headlessEncode(inValues, inPos, finalInPos, stale) ==
    IF inPos = finalInPos THEN [out |-> << >>, inPos |-> inPos, err |-> "none"]
    ELSE PageAppended(encodePage(inValues, inPos, Min2(PAGE_SIZE, finalInPos - inPos), stale),
                      inValues, finalInPos, stale)

\* out[outPos] = alignedLength, then the pages
encode(inValues, inLength, stale) ==
    [headlessEncode(inValues, 0, greatestMultiple(inLength, BLOCK_SIZE), stale)
         EXCEPT !.out = << greatestMultiple(inLength, BLOCK_SIZE) >> \o @]

\* the bytes of one value: 7 bits at a time, the last byte with the high bit set
RECURSIVE VByte(_)
VByte(v) ==
    IF v < 0 THEN << v % 128 >> \o VByte((v \div 128) + 33554432)
    ELSE IF v >= 128 THEN << v % 128 >> \o VByte(v \div 128)
    ELSE << v + 128 >>

RECURSIVE VBytes(_, _, _)
VBytes(inValues, k, end) ==
    IF k >= end THEN << >> ELSE VByte(inValues[k + 1]) \o VBytes(inValues, k + 1, end)

encodeVByte(inValues, inPos, inLength) ==
    IF inLength = 0 THEN [out |-> << >>, err |-> "none"]
    ELSE IF inLength > 255 THEN [out |-> << >>, err |-> "Error"]
    ELSE [out |-> WordsOfBytes(padByteContainerToInt32(
                      VBytes(inValues, inPos, inPos + inLength))),
          err |-> "none"]

TailAppended(head, tail) ==
    IF tail.err # "none" THEN [out |-> << >>, err |-> tail.err]
    ELSE [out |-> head.out \o tail.out, err |-> "none"]

WithTail(head, inValues) ==
    IF head.err # "none" THEN [out |-> << >>, err |-> head.err]
    ELSE TailAppended(head, encodeVByte(inValues, head.inPos, Len(inValues) - head.inPos))

\* the Int32 words of the encoding; stale = what unused workspace slots hold
encodeFastPforInt32WithWorkspace(inValues, stale) ==
    WithTail(encode(inValues, Len(inValues), stale), inValues)

----------------------------------------------------------------------------
(* FastPFOR decoder and the byte form of the encoding *)

\* the bytes of an int32 in the byte stream, highest first
BytesOfWord(word) ==
    << (word \div 16777216) % 256, (word \div 65536) % 256, (word \div 256) % 256,
       word % 256 >>

BytesOfWords(words) ==
    SubSeq([n \in 1..(4 * Len(words)) |->
               BytesOfWord(words[(n - 1) \div 4 + 1])[((n - 1) % 4) + 1]],
           1, 4 * Len(words))

\* encodeFastPfor: the encoder's int32 words as bytes
EncodedBytes(r) == [bytes |-> IF r.err = "none" THEN BytesOfWords(r.out) ELSE << >>,
                    err |-> r.err]

encodeFastPfor(inValues, stale) ==
    EncodedBytes(encodeFastPforInt32WithWorkspace(inValues, stale))

\* the int32 words of byteLength bytes of the buffer, from the cursor on
WordsAt(buffer, at, byteLength) ==
    SubSeq([n \in 1..(byteLength \div 4) |->
               WordOfBytes(buffer[at + 4 * n], buffer[at + 4 * n - 1],
                           buffer[at + 4 * n - 2], buffer[at + 4 * n - 3])],
           1, byteLength \div 4)

\* byte j of a word of the byte container, lowest first
ContainerByte(word, j) == (word \div 256^j) % 256

\* the byte container held by the words from pos on (0-based)
ContainerBytes(words, pos, byteSize) ==
    SubSeq([n \in 1..byteSize |->
               ContainerByte(words[pos + (n - 1) \div 4 + 1], (n - 1) % 4)],
           1, byteSize)

\* the bits of each word
BitsOfWords(words) == SubSeq([n \in 1..Len(words) |-> Bits32(words[n])], 1, Len(words))

\* the value of bitWidth bits at bitPos of a bit stream of words
UnpackValue(wordBits, bitPos, bitWidth) ==
    ToInt32(Word([i \in 1..32 |->
        IF i <= bitWidth
        THEN wordBits[(bitPos + i - 1) \div 32 + 1][((bitPos + i - 1) % 32) + 1]
        ELSE 0]))

Unpacked(wordBits, count, bitWidth) ==
    SubSeq([n \in 1..count |-> UnpackValue(wordBits, (n - 1) * bitWidth, bitWidth)],
           1, count)

\* count values of bitWidth bits each, packed into the words from pos on (0-based)
fastUnpack(words, pos, count, bitWidth) ==
    Unpacked(BitsOfWords(SubSeq(words, pos + 1, pos + (count * bitWidth + 31) \div 32)),
             count, bitWidth)

\* the exception streams of a page: for each width k of the bitmap, a length and
\* the values, k bits each
RECURSIVE DecodeExceptionStreams(_, _, _, _)
ExceptionStreamRead(words, bitmap, k, ex, size) ==
    DecodeExceptionStreams(words, bitmap, k + 1,
        [ex EXCEPT !.streams = [ex.streams EXCEPT ![k] = fastUnpack(words, ex.pos + 1, size, k)],
                   !.pos = ex.pos + 1 + (size * k + 31) \div 32])

DecodeExceptionStreams(words, bitmap, k, ex) ==
    IF k > 32 \/ ex.err # "none" THEN ex
    ELSE IF bitmap[k] = 0 THEN DecodeExceptionStreams(words, bitmap, k + 1, ex)
    ELSE IF ex.pos >= Len(words) THEN [ex EXCEPT !.err = "Error"]
    ELSE IF ex.pos + 1 + (words[ex.pos + 1] * k + 31) \div 32 > Len(words)
         THEN [ex EXCEPT !.err = "Error"]
    ELSE ExceptionStreamRead(words, bitmap, k, ex, words[ex.pos + 1])

\* value | (high << bitWidth)
Patched(value, high, bitWidth) ==
    ToInt32(BitOr(Bits32(value), ShiftLeft(Bits32(high), bitWidth)))

\* the block's values with the high bits of its exceptions put back
PatchedBlock(raw, positions, bitWidth, index, stream, ptr) ==
    SubSeq([k \in 1..BLOCK_SIZE |->
               IF \E n \in 1..Len(positions) : positions[n] = k - 1
               THEN Patched(raw[k],
                        IF index = 1 THEN 1
                        ELSE stream[ptr + (CHOOSE n \in 1..Len(positions) : positions[n] = k - 1)],
                        bitWidth)
               ELSE raw[k]],
           1, BLOCK_SIZE)

\* a block with exceptions: maxBits and the positions follow the two header bytes
DecodeExceptionBlock(st, words, bytes, streams, bitWidth, cExcept, index) ==
    IF index < 1 \/ index > 32 \/ st.bytePos + 3 + cExcept > Len(bytes)
    THEN [st EXCEPT !.err = "Error"]
    ELSE IF index > 1 /\ st.ptr[index] + cExcept > Len(streams[index])
    THEN [st EXCEPT !.err = "Error"]
    ELSE [out |-> st.out \o PatchedBlock(fastUnpack(words, st.bodyPos, BLOCK_SIZE, bitWidth),
                                SubSeq(bytes, st.bytePos + 4, st.bytePos + 3 + cExcept),
                                bitWidth, index, streams[index], st.ptr[index]),
          bytePos |-> st.bytePos + 3 + cExcept,
          bodyPos |-> st.bodyPos + 8 * bitWidth,
          ptr |-> IF index > 1 THEN [st.ptr EXCEPT ![index] = st.ptr[index] + cExcept]
                  ELSE st.ptr,
          err |-> "none"]

\* one block: header bytes bitWidth and cExcept, then the packed body
DecodeBlock(st, words, bytes, streams, bitWidth, cExcept) ==
    IF bitWidth > 32 \/ st.bodyPos + 8 * bitWidth > Len(words)
    THEN [st EXCEPT !.err = "Error"]
    ELSE IF cExcept = 0
    THEN [st EXCEPT !.out = st.out \o fastUnpack(words, st.bodyPos, BLOCK_SIZE, bitWidth),
                    !.bytePos = st.bytePos + 2,
                    !.bodyPos = st.bodyPos + 8 * bitWidth]
    ELSE DecodeExceptionBlock(st, words, bytes, streams, bitWidth, cExcept,
             bytes[st.bytePos + 3] - bitWidth)

RECURSIVE DecodeBlocks(_, _, _, _, _)
DecodeBlocks(st, words, bytes, streams, blocks) ==
    IF blocks = 0 \/ st.err # "none" THEN st
    ELSE IF st.bytePos + 2 > Len(bytes) THEN [st EXCEPT !.err = "Error"]
    ELSE DecodeBlocks(DecodeBlock(st, words, bytes, streams, bytes[st.bytePos + 1],
                          bytes[st.bytePos + 2]),
                      words, bytes, streams, blocks - 1)

NoExceptions(pos) ==
    [streams |-> [k \in 1..32 |-> << >>], pos |-> pos, err |-> "none"]

PageDecoded(st, ex) ==
    [out |-> st.out, pos |-> ex.pos,
     err |-> IF ex.err # "none" THEN ex.err ELSE st.err]

\* the blocks of a page, given its byte container and exception streams
PageBlocks(words, pos, thisSize, bytes, ex) ==
    IF ex.err # "none" THEN [out |-> << >>, pos |-> pos, err |-> ex.err]
    ELSE PageDecoded(DecodeBlocks([out |-> << >>, bytePos |-> 0, bodyPos |-> pos + 1,
                                   ptr |-> [k \in 1..32 |-> 0], err |-> "none"],
                                  words, bytes, ex.streams, thisSize \div BLOCK_SIZE),
                     ex)

\* metaPos = where the page's byteSize stands
PageAt(words, pos, thisSize, metaPos, byteSize) ==
    IF byteSize < 0 \/ metaPos + 1 + (byteSize + 3) \div 4 >= Len(words)
    THEN [out |-> << >>, pos |-> pos, err |-> "Error"]
    ELSE PageBlocks(words, pos, thisSize,
             ContainerBytes(words, metaPos + 1, byteSize),
             DecodeExceptionStreams(words,
                 Bits32(words[metaPos + 1 + (byteSize + 3) \div 4 + 1]), 2,
                 NoExceptions(metaPos + 1 + (byteSize + 3) \div 4 + 1)))

\* one page from word pos on (0-based): header size, blocks, byte container, exceptions
decodePage(words, pos, thisSize) ==
    IF pos >= Len(words) THEN [out |-> << >>, pos |-> pos, err |-> "Error"]
    ELSE IF words[pos + 1] < 1 \/ pos + words[pos + 1] >= Len(words)
    THEN [out |-> << >>, pos |-> pos, err |-> "Error"]
    ELSE PageAt(words, pos, thisSize, pos + words[pos + 1],
                words[pos + words[pos + 1] + 1])

RECURSIVE DecodePages(_, _, _)
PagePrepended(page, rest) ==
    IF rest.err # "none" THEN rest ELSE [rest EXCEPT !.out = page.out \o rest.out]

DecodePagesAfter(words, page, remaining) ==
    IF page.err # "none" THEN page
    ELSE PagePrepended(page, DecodePages(words, page.pos, remaining - Len(page.out)))

\* pages until the aligned count is reached
DecodePages(words, pos, remaining) ==
    IF remaining <= 0 THEN [out |-> << >>, pos |-> pos, err |-> "none"]
    ELSE DecodePagesAfter(words, decodePage(words, pos, Min2(PAGE_SIZE, remaining)),
                          remaining)

\* the VByte tail: 7 bits per byte, lowest first, the last byte of a value has
\* its high bit set; the bytes stand four per word, lowest first
RECURSIVE DecodeVByte(_, _, _, _)
DecodeVByte(bytes, at, shift, acc) ==
    IF at >= Len(bytes) \/ shift > 28 THEN [v |-> 0, at |-> at, err |-> "Error"]
    ELSE IF bytes[at + 1] >= 128
    THEN [v |-> ToInt32(BitOr(acc, ShiftLeft(Bits32(bytes[at + 1] - 128), shift))),
          at |-> at + 1, err |-> "none"]
    ELSE DecodeVByte(bytes, at + 1, shift + 7,
             BitOr(acc, ShiftLeft(Bits32(bytes[at + 1]), shift)))

RECURSIVE DecodeVBytes(_, _, _)
VBytePrepended(one, rest) ==
    IF rest.err # "none" THEN rest ELSE [rest EXCEPT !.out = << one.v >> \o rest.out]

DecodeVBytesAfter(bytes, one, count) ==
    IF one.err # "none" THEN [out |-> << >>, at |-> one.at, err |-> one.err]
    ELSE VBytePrepended(one, DecodeVBytes(bytes, one.at, count - 1))

DecodeVBytes(bytes, at, count) ==
    IF count = 0 THEN [out |-> << >>, at |-> at, err |-> "none"]
    ELSE DecodeVBytesAfter(bytes, DecodeVByte(bytes, at, 0, ZeroWord), count)

TailDecoded(head, tail) ==
    [out |-> head.out \o tail.out, pos |-> head.pos + (tail.at + 3) \div 4,
     err |-> tail.err]

DecodeTail(words, head, count) ==
    IF head.err # "none" THEN head
    ELSE IF count < 0 THEN [head EXCEPT !.err = "Error"]
    ELSE TailDecoded(head,
             DecodeVBytes(ContainerBytes(words, head.pos, 4 * (Len(words) - head.pos)),
                          0, count))

\* the aligned count, the pages, then the VByte tail of numValues - aligned values
DecodeWords(words, numValues) ==
    IF Len(words) = 0 THEN [out |-> << >>, pos |-> 0, err |-> "Error"]
    ELSE DecodeTail(words, DecodePages(words, 1, words[1]), numValues - words[1])

CursorAfter(r, at) ==
    [vs |-> IF r.err = "none" THEN r.out ELSE << >>, offset |-> at + 4 * r.pos,
     err |-> r.err]

\* decodeFastPfor(encoded, numValues, byteLength, offset): the values and the
\* cursor behind the last word read
decodeFastPfor(buffer, numValues, byteLength, at) ==
    CursorAfter(DecodeWords(WordsAt(buffer, at, byteLength), numValues), at)

----------------------------------------------------------------------------
(* FastPFOR round trips *)

MaxBlocks == 2

FastPforPatterns ==
    { "zero", "ramp", "max", "negative", "onebit", "allmax", "allnegative", "min", "mixed" }

\* value i (0-based) of a pattern
PatternValue(pattern, i) ==
    CASE pattern = "zero" -> 0
      [] pattern = "ramp" -> i * 7
      [] pattern = "max" -> IF i % 64 = 3 THEN 2147483647 ELSE i % 4
      [] pattern = "negative" -> IF i % 128 = 5 THEN -1 ELSE 1
      [] pattern = "onebit" -> IF i % 32 = 7 THEN 3 ELSE i % 2
      [] pattern = "allmax" -> 2147483647
      [] pattern = "allnegative" -> (-1) - i
      [] pattern = "min" -> IF i = 0 THEN (-2147483647) - 1 ELSE 0
      [] OTHER -> IF i < BLOCK_SIZE THEN (IF i % 64 = 3 THEN 2147483647 ELSE i % 4)
                  ELSE (IF i % 50 = 5 THEN 70000 + i ELSE i % 16)

PatternValues(pattern, length) ==
    SubSeq([n \in 1..length |-> PatternValue(pattern, n - 1)], 1, length)

FastPforLengths ==
    { 0, 3, 8 } \cup { k * BLOCK_SIZE : k \in 1..MaxBlocks }
                \cup { k * BLOCK_SIZE + 3 : k \in 1..MaxBlocks }

\* an Int32Array and what the unused slots of the encoder workspace hold
FastPforInput(vs, stale) == [vs |-> vs, stale |-> stale]

FastPforInputs ==
    { FastPforInput(PatternValues(p, n), s) :
          p \in FastPforPatterns, n \in FastPforLengths, s \in { 0, -1 } }
    \cup { FastPforInput(<< 0, 1, 2, 3, 5, 8, 13, 21 >>, 0),
           FastPforInput(<< 2147483647 >>, 0) }

InitFastPfor ==
    /\ values \in FastPforInputs
    /\ tile = << >>
    /\ offset = 0
    /\ decoded = << >>
    /\ IdleGeometry

\* the encoder returned r.bytes, or threw r.err
FastPforEncoded(r) ==
    /\ tile' = r.bytes
    /\ decoded' = IF r.err = "none" THEN << >> ELSE << [out |-> << >>, err |-> r.err] >>
    /\ UNCHANGED << values, offset >>
    /\ UNCHANGED geometryVars

\* const encoded = encodeFastPfor(values)
EncodeFastPfor ==
    /\ tile = << >> /\ decoded = << >>
    /\ FastPforEncoded(encodeFastPfor(values.vs, values.stale))

FastPforDecoded(r) ==
    /\ offset' = r.offset
    /\ decoded' = << [out |-> r.vs, err |-> r.err] >>
    /\ UNCHANGED << values, tile >>
    /\ UNCHANGED geometryVars

\* const decoded = decodeFastPfor(encoded, values.length, encoded.length, offset)
DecodeFastPfor ==
    /\ tile # << >> /\ decoded = << >>
    /\ FastPforDecoded(decodeFastPfor(tile, Len(values.vs), Len(tile), offset))

NextFastPfor ==
    \/ EncodeFastPfor
    \/ DecodeFastPfor

SpecFastPfor == InitFastPfor /\ [][NextFastPfor]_vars

----------------------------------------------------------------------------
(* The generator of the fixed-width unpackers (scripts/generateFastPforUnpack.ts).
   A generated routine is kept as what its text says: the number of words a
   pass reads into in0, in1, ..., the number of passes, and the expressions
   assigned to out[op++] in a pass *)

\* hexMask(bits): the mask written as a hexadecimal literal
hexMask(bitCount) ==
    IF bitCount = 0 THEN ZeroWord
    ELSE IF bitCount >= 32 THEN Bits32(-1)
    ELSE Word([i \in 1..32 |-> IF i <= bitCount THEN 1 ELSE 0])

\* the expression  (in<word> >>> shift) & mask
OneWordExpr(word, shift, mask) ==
    [two |-> FALSE, word |-> word, shift |-> shift, highMask |-> ZeroWord,
     lowBits |-> 0, mask |-> mask, maxWord |-> word]

\* extractExpr with the low bits of the next word shifted by one bit too few
extractExprShort(bitWidth, bitPos) ==
    IF (bitPos % 32) + bitWidth <= 32
    THEN OneWordExpr(bitPos \div 32, bitPos % 32, hexMask(bitWidth))
    ELSE [two |-> TRUE, word |-> bitPos \div 32, shift |-> bitPos % 32,
          highMask |-> hexMask(bitWidth - (32 - (bitPos % 32))),
          lowBits |-> 31 - (bitPos % 32),
          mask |-> hexMask(bitWidth), maxWord |-> (bitPos \div 32) + 1]

\* extractExpr(bitWidth, bitPos, "in"): the expression and the last word it names
extractExpr(bitWidth, bitPos) ==
    IF (bitPos % 32) + bitWidth <= 32
    THEN OneWordExpr(bitPos \div 32, bitPos % 32, hexMask(bitWidth))
    ELSE [two |-> TRUE, word |-> bitPos \div 32, shift |-> bitPos % 32,
          highMask |-> hexMask(bitWidth - (32 - (bitPos % 32))),
          lowBits |-> 32 - (bitPos % 32),
          mask |-> hexMask(bitWidth), maxWord |-> (bitPos \div 32) + 1]

\* the 32 expressions of a pass: bitPos += bitWidth after each
PassExprs(bitWidth) ==
    SubSeq([i \in 1..32 |-> extractExpr(bitWidth, (i - 1) * bitWidth)], 1, 32)

MaxWord(exprs) ==
    CHOOSE m \in { exprs[i].maxWord : i \in 1..Len(exprs) } :
        \A i \in 1..Len(exprs) : exprs[i].maxWord <= m

\* if (maxWord !== words - 1) throw new Error("internal: expected maxWord=...")
Generated(inWords, passes, exprs) ==
    [err |-> IF MaxWord(exprs) # inWords - 1 THEN "internal" ELSE "none",
     inWords |-> inWords, passes |-> passes, exprs |-> exprs]

\* genFastUnpack32(bitWidth): fastUnpack32_<bitWidth>
genFastUnpack32(bitWidth) ==
    IF bitWidth = 1
    THEN Generated(1, 1, SubSeq([i \in 1..32 |-> OneWordExpr(0, i - 1, Bits32(1))], 1, 32))
    ELSE Generated(bitWidth, 1, PassExprs(bitWidth))

\* genFastUnpack256(bitWidth): fastUnpack256_<bitWidth>, for (let c = 0; c < 8; c++)
genFastUnpack256(bitWidth) == Generated(bitWidth, 8, PassExprs(bitWidth))

\* genFastUnpack256_16(): for (let i = 0; i < 128; i++), two values of a word
genFastUnpack256_16 ==
    [err |-> "none", inWords |-> 1, passes |-> 128,
     exprs |-> << OneWordExpr(0, 0, hexMask(16)), OneWordExpr(0, 16, hexMask(16)) >>]

bw32 == << 1, 2, 3, 4, 5, 6, 7, 8, 9, 10, 11, 12, 16 >>

bw256Short == << 1, 2, 3, 4, 5, 6, 7 >>

bw256 == << 1, 2, 3, 4, 5, 6, 7, 8 >>

Elements(s) == { s[i] : i \in 1..Len(s) }

\* generateFile(): the routines the file exports, by the number of values they
\* decode and their bit width
generateFile ==
    [name \in ({ << 32, bw >> : bw \in Elements(bw32) }
               \cup { << 256, bw >> : bw \in Elements(bw256) }
               \cup { << 256, 16 >> }) |->
        IF name[1] = 32 THEN genFastUnpack32(name[2])
        ELSE IF name[2] = 16 THEN genFastUnpack256_16
        ELSE genFastUnpack256(name[2])]

\* the value a generated expression has on the words in0, in1, ... of a pass
ExprValue(e, ins) ==
    IF e.two
    THEN BitAnd(BitOr(ShiftRightUnsigned(ins[e.word + 1], e.shift),
                      ShiftLeft(BitAnd(ins[e.word + 2], e.highMask), e.lowBits)),
                e.mask)
    ELSE BitAnd(ShiftRightUnsigned(ins[e.word + 1], e.shift), e.mask)

\* const in<k> = inValues[ip++] >>> 0
PassWords(routine, inValues, inPos, c) ==
    SubSeq([k \in 1..routine.inWords |->
               Bits32(inValues[inPos + c * routine.inWords + k])], 1, routine.inWords)

\* out[op++] = <expr>: value n (0-based) a routine writes, the expression
\* n % |exprs| of pass n / |exprs|
ValueWritten(routine, inValues, inPos, n) ==
    ToInt32(ExprValue(routine.exprs[(n % Len(routine.exprs)) + 1],
                      PassWords(routine, inValues, inPos, n \div Len(routine.exprs))))

\* all passes of a routine
Passes(routine, inValues, inPos) ==
    SubSeq([n \in 1..(routine.passes * Len(routine.exprs)) |->
               ValueWritten(routine, inValues, inPos, n - 1)],
           1, routine.passes * Len(routine.exprs))

\* a generated routine run on inValues at inPos: the values written at outPos
\* and the indices of inValues it read
RunGenerated(routine, inValues, inPos) ==
    [err |-> "none",
     out |-> Passes(routine, inValues, inPos),
     reads |-> { inPos + k : k \in 0..(routine.passes * routine.inWords - 1) }]

\* fastUnpack<count>_<bitWidth>(inValues, inPos, out, outPos), when the
\* generated file exports it
CallGenerated(count, bitWidth, inValues, inPos) ==
    IF << count, bitWidth >> \notin DOMAIN generateFile
    THEN [err |-> "missing", out |-> << >>, reads |-> {}]
    ELSE IF generateFile[<< count, bitWidth >>].err # "none"
    THEN [err |-> generateFile[<< count, bitWidth >>].err, out |-> << >>, reads |-> {}]
    ELSE RunGenerated(generateFile[<< count, bitWidth >>], inValues, inPos)

\* fastUnpack256_Generic: one value of the inner loop; st = c, i,
\* inputWordIndex, bitOffset, currentWord, the values written, the indices read
GenericWithin(st, bitWidth, inValues) ==
    IF st.bitOffset + bitWidth = 32
    THEN [c |-> st.c, i |-> st.i + 1,
          inputWordIndex |-> st.inputWordIndex + 1,
          bitOffset |-> 0,
          currentWord |-> IF st.i # 31 THEN Bits32(inValues[st.inputWordIndex + 2])
                          ELSE st.currentWord,
          out |-> Append(st.out, ToInt32(BitAnd(ShiftRightUnsigned(st.currentWord, st.bitOffset),
                                                 MASKS(bitWidth)))),
          reads |-> IF st.i # 31 THEN st.reads \cup { st.inputWordIndex + 1 } ELSE st.reads]
    ELSE [c |-> st.c, i |-> st.i + 1,
          inputWordIndex |-> st.inputWordIndex,
          bitOffset |-> st.bitOffset + bitWidth,
          currentWord |-> st.currentWord,
          out |-> Append(st.out, ToInt32(BitAnd(ShiftRightUnsigned(st.currentWord, st.bitOffset),
                                                 MASKS(bitWidth)))),
          reads |-> st.reads]

GenericAcross(st, bitWidth, inValues) ==
    [c |-> st.c, i |-> st.i + 1,
     inputWordIndex |-> st.inputWordIndex + 1,
     bitOffset |-> bitWidth - (32 - st.bitOffset),
     currentWord |-> Bits32(inValues[st.inputWordIndex + 2]),
     out |-> Append(st.out,
         ToInt32(BitAnd(BitOr(ShiftRightUnsigned(st.currentWord, st.bitOffset),
                              ShiftLeft(BitAnd(Bits32(inValues[st.inputWordIndex + 2]),
                                               ShiftRightUnsigned(Bits32(-1),
                                                   32 - (bitWidth - (32 - st.bitOffset)))),
                                        32 - st.bitOffset)),
                        MASKS(bitWidth)))),
     reads |-> st.reads \cup { st.inputWordIndex + 1 }]

\* for (let i = 0; i < 32; i++)
RECURSIVE GenericInner(_, _, _)
GenericInner(st, bitWidth, inValues) ==
    IF st.i = 32 THEN st
    ELSE GenericInner(IF st.bitOffset + bitWidth <= 32
                      THEN GenericWithin(st, bitWidth, inValues)
                      ELSE GenericAcross(st, bitWidth, inValues),
                      bitWidth, inValues)

\* op += 32; bitOffset = 0; if (c < 7) currentWord = inValues[inputWordIndex] >>> 0
GenericNext(st, inValues) ==
    [c |-> st.c + 1, i |-> 0,
     inputWordIndex |-> st.inputWordIndex,
     bitOffset |-> 0,
     currentWord |-> IF st.c < 7 THEN Bits32(inValues[st.inputWordIndex + 1])
                     ELSE st.currentWord,
     out |-> st.out,
     reads |-> IF st.c < 7 THEN st.reads \cup { st.inputWordIndex } ELSE st.reads]

\* for (let c = 0; c < 8; c++)
RECURSIVE GenericOuter(_, _, _)
GenericOuter(st, bitWidth, inValues) ==
    IF st.c = 8 THEN st
    ELSE GenericOuter(GenericNext(GenericInner(st, bitWidth, inValues), inValues),
                      bitWidth, inValues)

\* what the routine wrote at outPos, and what it read
GenericResult(st) == [err |-> "none", out |-> st.out, reads |-> st.reads]

\* fastUnpack256_Generic(inValues, inPos, out, outPos, bitWidth)
fastUnpack256_Generic(inValues, inPos, bitWidth) ==
    GenericResult(GenericOuter([c |-> 0, i |-> 0,
                                inputWordIndex |-> inPos, bitOffset |-> 0,
                                currentWord |-> Bits32(inValues[inPos + 1]),
                                out |-> << >>, reads |-> { inPos }],
                               bitWidth, inValues))

----------------------------------------------------------------------------
(* SpecUnpack: a generated unpacker and the generic routine on the same words *)

MaxInPos == 1

UnpackWidths == (1..12) \cup { 16 }

\* values of a block with bits above every generated width
UnpackSource ==
    SubSeq([n \in 1..BLOCK_SIZE |->
               IF n % 5 = 0 THEN 0 - n ELSE n * 2654435 + 77], 1, BLOCK_SIZE)

\* word k (1-based) of an input that is not the output of the encoder
UnpackWord(pattern, k) ==
    IF pattern = "ones" THEN -1
    ELSE IF k % 2 = 0 THEN k * 16000057 + 7919
    ELSE 0 - (k * 16000057) - 3

\* the words of an input: inPos words to skip, then 8 * w words of a block, then
\* one word more
UnpackWords(pattern, w, inPos) ==
    IF pattern = "packed"
    THEN SubSeq([k \in 1..inPos |-> 1431655765], 1, inPos)
             \o packBlock(UnpackSource, 0, w) \o << -1 >>
    ELSE SubSeq([k \in 1..(inPos + 8 * w + 1) |-> UnpackWord(pattern, k)],
                1, inPos + 8 * w + 1)

UnpackInputs ==
    { [count |-> n, w |-> w, inPos |-> p, words |-> UnpackWords(pattern, w, p),
       src |-> IF pattern = "packed" THEN UnpackSource ELSE << >>] :
          n \in { 32, 256 }, w \in UnpackWidths, p \in 0..MaxInPos,
          pattern \in { "ones", "mixed", "packed" } }

InitUnpack ==
    /\ values \in UnpackInputs
    /\ tile = << >>
    /\ offset = 0
    /\ decoded = << >>
    /\ IdleGeometry

Unpacked32Or256(r) ==
    /\ decoded' = Append(decoded, r)
    /\ UNCHANGED << values, tile, offset >>
    /\ UNCHANGED geometryVars

\* fastUnpack<count>_<w>(words, inPos, out, 0)
CallFixedWidth ==
    /\ decoded = << >>
    /\ Unpacked32Or256(CallGenerated(values.count, values.w, values.words, values.inPos))

\* fastUnpack256_Generic(words, inPos, out, 0, w)
CallGeneric ==
    /\ Len(decoded) = 1
    /\ Unpacked32Or256(fastUnpack256_Generic(values.words, values.inPos, values.w))

NextUnpack ==
    \/ CallFixedWidth
    \/ CallGeneric

SpecUnpack == InitUnpack /\ [][NextUnpack]_vars

----------------------------------------------------------------------------
(* SpecPages: encodeFastPforInt32WithWorkspace one call at a time: encode()
   writing the aligned length, each encodePage of headlessEncode's loop, and
   encodeVByte for the tail.  values = the pattern and length of the array,
   offset = inPos, tile = the words written, decoded = the calls made *)

MaxPages == 2

\* arrays of up to MaxBlocks blocks, and arrays of zeros of whole pages with
\* and without a block and a tail behind them
PageInputs ==
    { [pattern |-> p, length |-> n, stale |-> 0] :
          p \in FastPforPatterns, n \in FastPforLengths }
    \cup { [pattern |-> "zero", length |-> k * PAGE_SIZE + r, stale |-> -1] :
               k \in 1..MaxPages, r \in { 0, BLOCK_SIZE + 3 } }

InitPages ==
    /\ values \in PageInputs
    /\ tile = << >>
    /\ offset = 0
    /\ decoded = << >>
    /\ IdleGeometry

\* the Int32Array encoded
PageValues == PatternValues(values.pattern, values.length)

\* headlessEncode: finalInPos = inPos.get() + alignedLength, from inPos 0
PagesFinalInPos ==
    greatestMultiple(greatestMultiple(values.length, BLOCK_SIZE), BLOCK_SIZE)

LastCall == decoded[Len(decoded)].op

\* the call made, the size it was given and whether it threw
PageCalled(op, thisSize, r, inPos) ==
    /\ decoded' = Append(decoded, [op |-> IF r.err = "none" THEN op ELSE "threw",
                                   thisSize |-> thisSize])
    /\ tile' = tile \o r.out
    /\ offset' = IF r.err = "none" THEN inPos ELSE offset
    /\ UNCHANGED values
    /\ UNCHANGED geometryVars

\* encode: out[outPos.get()] = alignedLength
EncodeStart ==
    /\ decoded = << >>
    /\ PageCalled("encode", 0,
                  [out |-> << greatestMultiple(values.length, BLOCK_SIZE) >>, err |-> "none"],
                  offset)

\* one pass of  while (inPos.get() !== finalInPos):
\* encodePage(inValues, inPos, Math.min(PAGE_SIZE, finalInPos - inPos.get()), ...)
EncodeOnePage(r) ==
    PageCalled("page", Min2(PAGE_SIZE, PagesFinalInPos - offset), r, r.inPos)

EncodePageStep ==
    /\ decoded # << >>
    /\ LastCall \in { "encode", "page" }
    /\ offset # PagesFinalInPos
    /\ \E r \in { encodePage(PageValues, offset,
                            Min2(PAGE_SIZE, PagesFinalInPos - offset), values.stale) } :
           EncodeOnePage(r)

\* the loop has been left: encodeVByte(values, inPos, values.length - inPos.get(), ...)
EncodeTail ==
    /\ decoded # << >>
    /\ LastCall \in { "encode", "page" }
    /\ offset = PagesFinalInPos
    /\ \E r \in { encodeVByte(PageValues, offset, values.length - offset) } :
           PageCalled("tail", values.length - offset, r, offset + (values.length - offset))

NextPages ==
    \/ EncodeStart
    \/ EncodePageStep
    \/ EncodeTail

SpecPages == InitPages /\ [][NextPages]_vars

----------------------------------------------------------------------------
(* Properties of Spec *)

\* C2: every geometry.coordinates read of feature i, whether served by a single
\* decode or from the materialized array, returns a value structurally equal
\* to geometryVector.getGeometries()[i]
C2_ReadEqualsGetGeometries ==
    (lastOp.op = "coordinates" /\ lastOp.err = "none")
        => lastOp.coords = At(getGeometries(gv).geoms, lastOp.index)

\* a step that invokes a conversion or the column's get()
Converts ==
    \/ calls'.single # calls.single
    \/ calls'.bulk # calls.bulk
    \/ calls'.get # calls.get
    \/ calls'.decode # calls.decode

\* C7: getLayer(), layer.feature(i) and reads of geometry.type and of properties
\* invoke no single conversion, no bulk conversion and no get() of the deferred
\* column; only a read of geometry.coordinates that misses the cache does
C7_NoConversionBeforeCoordinates ==
    [][Converts => (lastOp'.op = "coordinates" /\ ~lastOp'.hit)]_vars

\* features of a deferred table were created and a type read, nothing converted
C7_Witness ==
    /\ tbl.column /\ ~tbl.vector
    /\ Len(feats) = 2
    /\ lastOp.op = "type"
    /\ calls.typeCalls = 2
    /\ calls.single = 0 /\ calls.bulk = 0 /\ calls.get = 0 /\ calls.decode = 0

\* a read of the coordinates of feature f when its cache is already set
CachedRead(f) ==
    /\ feats[f].has
    /\ lastOp'.op = "coordinates"
    /\ lastOp'.feat = f

\* C8: once a feature's coordinates have been read successfully, a later read
\* on the same feature object returns the identical object without calling the
\* resolver: no decode, and the resolver's counters and last index unchanged
C8_CachedPerFeature ==
    [][\A f \in 1..Len(feats) :
          CachedRead(f) => /\ lastOp'.err = "none"
                           /\ lastOp'.obj = feats[f].obj
                           /\ lastOp'.coords = feats[f].coords
                           /\ layers' = layers
                           /\ calls' = calls
                           /\ tbl' = tbl]_vars

\* a second read of a feature whose first read was a single decode
C8_Witness ==
    /\ lastOp.op = "coordinates" /\ lastOp.hit
    /\ lastOp.obj.src = "single"
    /\ calls.single = 1 /\ calls.bulk = 0
    /\ layers[lastOp.layer].count = 1

----------------------------------------------------------------------------
(* Properties of SpecScan *)

\* C3: on a resolver backed by a GeometryVector, once 32 consecutive accesses
\* with index delta 1 or 2 have been made, or 512 accesses in total, the
\* resolver has called getGeometries and holds all geometries when the access
\* returns
C3_ThresholdMaterializes ==
    \A l \in 1..Len(layers) :
        ( /\ layers[l].isGV
          /\ \/ layers[l].near >= nearSequentialThreshold
             \/ layers[l].count >= absoluteAccessThreshold )
        => (layers[l].hasAll /\ calls.bulk >= 1)

\* the access that made the run 32 long was answered from the new array
C3_Witness ==
    /\ layers[1].isGV
    /\ layers[1].near = nearSequentialThreshold
    /\ layers[1].count < absoluteAccessThreshold
    /\ layers[1].hasAll
    /\ calls.bulk = 1
    /\ lastOp.obj.src = "all"

C5_LazyBelowThresholds ==
    [][( /\ layers'[1].isGV
         /\ layers'[1].count < absoluteAccessThreshold
         /\ layers'[1].near < nearSequentialThreshold )
       => /\ calls'.single = calls.single + 1
          /\ calls'.bulk = calls.bulk
          /\ lastOp'.obj.src = "single"
          /\ lastOp'.coords = convertSingleGeometry(gv, lastOp'.index).coords]_vars

\* forty accesses, the run one short of the threshold, all served one by one
C5_Witness ==
    /\ layers[1].isGV
    /\ layers[1].count = 40
    /\ layers[1].near = nearSequentialThreshold - 1
    /\ calls.single = 40
    /\ calls.bulk = 0
    /\ ~layers[1].hasAll

\* the index delta of the access a step makes, from the index requested before
Delta == lastOp'.index - layers[1].last

\* C6: an access whose index delta d from the previously requested index is
\* d <= 0 or d > 2 sets nearSequentialCount to 0, and causes no bulk
\* conversion unless it is the 512th access
C6_JumpResetsCounter ==
    [][( /\ ~layers[1].hasAll
         /\ layers[1].hasLast
         /\ (Delta <= 0 \/ Delta > maxIndexDeltaForSequential) )
       => /\ layers'[1].near = 0
          /\ layers'[1].count < absoluteAccessThreshold
                => (calls'.bulk = calls.bulk /\ ~layers'[1].hasAll)]_vars

\* more than 32 accesses, the last one a jump, and still no bulk conversion
C6_Witness ==
    /\ layers[1].isGV
    /\ layers[1].count = 36
    /\ layers[1].near = 0
    /\ layers[1].last = 33
    /\ calls.bulk = 0
    /\ ~layers[1].hasAll

\* C30: once the resolver holds the bulk-materialized array, a coordinate
\* access changes none of its state: totalAccessCount, nearSequentialCount,
\* lastRequestedIndex, the resolved vector and the materialized array are all
\* left unchanged by every later getCoordinates call
C30_MaterializedResolverFrozen ==
    [][(layers[1].hasAll /\ lastOp'.op = "coordinates") =>
          /\ layers'[1].count = layers[1].count
          /\ layers'[1].near = layers[1].near
          /\ layers'[1].hasLast = layers[1].hasLast
          /\ layers'[1].last = layers[1].last
          /\ layers'[1].resolved = layers[1].resolved
          /\ layers'[1].isGV = layers[1].isGV
          /\ layers'[1].hasAll
          /\ layers'[1].all = layers[1].all
          /\ lastOp'.coords = At(layers[1].all, lastOp'.index)]_vars

\* materialized by the 32nd near-sequential access, then read three features
\* further on: the counters still show the access that materialized
C30_Witness ==
    /\ layers[1].isGV
    /\ layers[1].hasAll
    /\ layers[1].near = nearSequentialThreshold
    /\ layers[1].count = nearSequentialThreshold + 1
    /\ lastOp.op = "coordinates"
    /\ lastOp.index = layers[1].last - 3
    /\ lastOp.obj.src = "all"

\* the same on a vector that is not a GeometryVector, materialized at once
C30_WitnessGpu ==
    /\ ~layers[1].isGV
    /\ layers[1].hasAll
    /\ layers[1].count = 1
    /\ lastOp.op = "coordinates"
    /\ lastOp.index # layers[1].last
    /\ lastOp.obj.src = "all"

----------------------------------------------------------------------------
(* Properties of SpecColumn *)

\* C9: DeferredGeometryColumn.getGeometryType(i) with a valid index never runs
\* decodeGeometryColumn nor get(), and the geometry-type stream is decoded at
\* most once, its result being cached
C9_TypeNeverDecodesColumn ==
    /\ [](calls.typeStream <= 1)
    /\ [][(lastOp'.op \in {"columnType", "feature"})
            => (calls'.decode = calls.decode /\ calls'.get = calls.get)]_vars
    /\ [](calls.get = 0 => calls.decode = 0)

\* two type queries answered from one decode of the type stream, before get()
C9_Witness ==
    /\ lastOp.op = "columnType" /\ lastOp.err = "none"
    /\ calls.typeCalls = 2
    /\ calls.typeStream = 1
    /\ tbl.types = "array"
    /\ calls.get = 0 /\ calls.decode = 0

\* a step in which the table resolves its geometry vector
Resolves ==
    \/ lastOp'.op = "geometryVector"
    \/ lastOp'.op = "coordinates" /\ ~lastOp'.hit

----------------------------------------------------------------------------
(* Properties of SpecRange *)

OutOfRange(index) == index < 0 \/ index >= numGeometries(gv)

\* C11: an index i < 0 or i >= the feature count is rejected with a RangeError
\* by convertSingleGeometry, by DeferredGeometryColumn.getGeometryType and by
\* layer.feature(i), before any stream or vertex decode and before any cache
\* or resolver counter is changed
C11_OutOfRangeRejected ==
    /\ [][(lastOp'.op \in {"feature", "columnType"} /\ OutOfRange(lastOp'.index))
            => /\ lastOp'.err = "RangeError"
               /\ UNCHANGED << tbl, calls, layers, feats >>]_vars
    /\ []((cvSingle.err # "unset" /\ OutOfRange(cvIndex))
            => cvSingle = Thrown("RangeError"))

\* the column rejected an index after its type cache, a feature's coordinates
\* and the resolver's counters had been set, and the converter rejected one too
C11_Witness ==
    /\ lastOp.op = "columnType" /\ lastOp.err = "RangeError"
    /\ lastOp.index = numGeometries(gv)
    /\ tbl.types = "array"
    /\ calls.typeStream = 1
    /\ Len(feats) >= 1 /\ feats[1].has
    /\ layers[1].count = 1
    /\ cvIndex = -1 /\ cvSingle.err = "RangeError" /\ cvSingle.bulk = 0

----------------------------------------------------------------------------
(* Properties of SpecConv: the rings of polygons *)

\* the vertex counts of the rings of polygon p, from its ringOffsets ranges
PolygonRingSizes(v, p) ==
    [r \in 1..(At(v.partOffsets, p + 1) - At(v.partOffsets, p)) |->
        At(v.ringOffsets, At(v.partOffsets, p) + r)
            - At(v.ringOffsets, At(v.partOffsets, p) + r - 1)]

\* the vertex counts of the rings of feature i, a POLYGON or MULTIPOLYGON
RingSizes(v, i) ==
    IF v.hasGeo
    THEN Flat([p \in 1..(At(v.geometryOffsets, i + 1) - At(v.geometryOffsets, i)) |->
                  PolygonRingSizes(v, At(v.geometryOffsets, i) + p - 1)])
    ELSE PolygonRingSizes(v, i)

Min(a, b) == IF a <= b THEN a ELSE b

\* each output ring has one point more than its ringOffsets range and ends
\* where it starts
ClosedRings(rings, sizes) ==
    \A k \in 1..Min(Len(rings), Len(sizes)) :
        /\ Len(rings[k]) = sizes[k] + 1
        /\ rings[k][Len(rings[k])] = rings[k][1]

\* the polygon features of v
PolygonFeatures(v) == {i \in 0..(numGeometries(v) - 1) : IsPolygon(geometryType(v, i))}

\* C12: every ring produced for a POLYGON or MULTIPOLYGON feature, by the bulk
\* path and by the single-geometry path, plain, dictionary or Morton encoded,
\* is closed: a ring whose ringOffsets range holds n vertices comes out with
\* n + 1 points, the last equal to the first
C12_RingsClosed ==
    /\ (cvSingle.err = "none" /\ cvIndex \in PolygonFeatures(gv))
          => ClosedRings(cvSingle.coords, RingSizes(gv, cvIndex))
    /\ cvBulk.err = "none"
          => \A i \in PolygonFeatures(gv) :
                ClosedRings(At(cvBulk.geoms, i), RingSizes(gv, i))

\* the same, for the vectors on which no MULTIPOINT precedes a polygon
C12_RingsClosedNoMultiPointBefore ==
    (\A i \in PolygonFeatures(gv) :
        \A j \in 0..(i - 1) : geometryType(gv, j) # MULTIPOINT \/ gv.singleType)
    => C12_RingsClosed

----------------------------------------------------------------------------
(* Properties of SpecStream *)

\* what the decoder is to return for an input
ExpectedValues(i) == IF i.kind = "length" THEN toOffsets(i.vs) ELSE i.vs

C14_LengthsToOffsets ==
    \A k \in 1..Len(decoded) :
        (decoded[k].done /\ decoded[k].meta.physicalStreamType = "LENGTH")
          => /\ Len(decoded[k].out) = decoded[k].meta.numValues + 1
             /\ decoded[k].meta.numValues = Len(values[k].vs)
             /\ decoded[k].out[1] = 0
             /\ \A i \in 1..Len(values[k].vs) :
                    decoded[k].out[i + 1] = decoded[k].out[i] + values[k].vs[i]
             /\ values[k].vs = <<>> => decoded[k].out = << 0 >>
             /\ values[k].vs = << 5, 0, 0, 3 >> => decoded[k].out = << 0, 5, 5, 5, 8 >>

\* the empty length stream and the stream of the lengths 5, 0, 0, 3, decoded
\* one after the other
C14_Witness ==
    /\ Len(decoded) = 2
    /\ decoded[1].done /\ decoded[2].done
    /\ values[1] = StreamInput("length", <<>>)
    /\ values[2] = StreamInput("length", << 5, 0, 0, 3 >>)
    /\ decoded[1].out = << 0 >>
    /\ decoded[2].out = << 0, 5, 5, 5, 8 >>


----------------------------------------------------------------------------
(* Properties of Spec: the resolvers of a table *)

----------------------------------------------------------------------------
(* Properties of Spec: GPU vectors *)

----------------------------------------------------------------------------
(* Properties of SpecOnce: the mixed-type path of convertSingleGeometry *)

\* the vector has the offsets the geometry at index needs below geometryOffsets
HasNeededOffsets(v, index) ==
    /\ IsLine(geometryType(v, index)) => v.hasPart
    /\ IsPolygon(geometryType(v, index)) => v.hasPart /\ v.hasRing

\* the last call was convertSingleGeometry on a mixed-type vector, index in range
MixedCall ==
    /\ cvSingle.err # "unset"
    /\ ~containsSingleGeometryType(gv)
    /\ cvIndex >= 0 /\ cvIndex < numGeometries(gv)

\* C18: on a mixed-type vector with geometryOffsets and the lower-level offsets
\* the requested kind needs, convertSingleGeometry returns the feature without
\* invoking convertGeometryVector
C18_MixedDecodedDirectly ==
    (MixedCall /\ gv.hasGeo /\ HasNeededOffsets(gv, cvIndex))
        => cvSingle.bulk = 0 /\ cvSingle.err = "none"

\* a polygon of two rings decoded directly from a vector of three kinds
C18_Witness ==
    /\ MixedCall /\ gv.hasGeo /\ gv.hasRing
    /\ gv.types = << MULTIPOINT, LINESTRING, POLYGON >>
    /\ cvIndex = 2
    /\ cvSingle.bulk = 0
    /\ Len(cvSingle.coords) = 2

\* the last call returned convertGeometryVector(geometryVector)[index]
ReturnedBulkElement ==
    /\ cvSingle.bulk = 1
    /\ cvSingle.err = convertGeometryVector(gv).err
    /\ cvSingle.coords = At(convertGeometryVector(gv).geoms, cvIndex)

\* the mixed-type vector has partOffsets and no ringOffsets
PartsWithoutRings == MixedCall /\ gv.hasPart /\ ~gv.hasRing

\* C19 as stated: on a mixed-type vector with partOffsets and without ringOffsets
\* convertSingleGeometry falls back to convertGeometryVector and returns the
\* element at the requested index
C19_FallsBackWithoutRings == PartsWithoutRings => ReturnedBulkElement

\* C19 as the code has it: on such a vector convertSingleGeometry falls back to
\* convertGeometryVector only when the vector has no geometryOffsets; with
\* geometryOffsets it decodes points and lines directly
C19_FallsBackWithoutGeometryOffsets ==
    PartsWithoutRings =>
        IF ~gv.hasGeo THEN ReturnedBulkElement
        ELSE (~IsPolygon(geometryType(gv, cvIndex))) =>
                 cvSingle.bulk = 0 /\ cvSingle.err = "none"

\* a line string returned as the second element of the bulk result
C19_Witness ==
    /\ PartsWithoutRings /\ ~gv.hasGeo
    /\ gv.types = << POINT, LINESTRING >>
    /\ cvIndex = 1
    /\ cvSingle.bulk = 1
    /\ Len(cvSingle.coords) = 1 /\ Len(cvSingle.coords[1]) = 2

\* a line string decoded directly from a vector of a multi-point and a line
C19_WitnessDirect ==
    /\ PartsWithoutRings /\ gv.hasGeo
    /\ gv.types = << MULTIPOINT, LINESTRING >>
    /\ cvIndex = 1
    /\ cvSingle.bulk = 0
    /\ Len(cvSingle.coords) = 1 /\ Len(cvSingle.coords[1]) = 2

----------------------------------------------------------------------------
(* Properties of SpecOnce: the cursors of convertGeometryVector at the end *)

\* every offset counter of the pass st stands d before the length of its array
OffsetCountersAt(v, st, d) ==
    /\ v.hasGeo => st.geo = Len(v.geometryOffsets) - d
    /\ v.hasPart => st.part = Len(v.partOffsets) - d
    /\ v.hasRing => st.ring = Len(v.ringOffsets) - d

\* the vertex cursor of the pass st has consumed every vertex slot:
\* vertexOffsets when dictionary-encoded, the pairs of vertexBuffer otherwise
VertexCursorAtEnd(v, st) ==
    IF v.vertexOffsets # <<>> THEN st.voo = Len(v.vertexOffsets)
    ELSE st.vbo = Len(v.vertexBuffer)

\* convertGeometryVector was called on gv and returned
BulkReturned == cvBulk.err = "none"

\* a MULTIPOINT of a mixed-type vector that has partOffsets
MultiPointOverParts(v) ==
    v.hasPart /\ \E i \in 0..(numGeometries(v) - 1) : geometryType(v, i) = MULTIPOINT

\* C20: after convertGeometryVector has processed all features of a legal
\* vector, each offset counter equals the length of its offsets array minus 1
\* and the vertex cursor has consumed every vertex slot
C20_CursorsAtEnd ==
    BulkReturned =>
        /\ OffsetCountersAt(gv, BulkPass(gv), 1)
        /\ VertexCursorAtEnd(gv, BulkPass(gv))

\* the vertex cursor alone
C20_VertexCursorAtEnd == BulkReturned => VertexCursorAtEnd(gv, BulkPass(gv))

\* with the counters read as the code counts them (from 1, so that they end at
\* the length of the array), and no MULTIPOINT over partOffsets
C20_CursorsAtEndNoMultiPoint ==
    (BulkReturned /\ ~MultiPointOverParts(gv)) =>
        /\ OffsetCountersAt(gv, BulkPass(gv), 0)
        /\ VertexCursorAtEnd(gv, BulkPass(gv))

\* the same reading on every legal vector
C20_CursorsAtLength ==
    BulkReturned =>
        /\ OffsetCountersAt(gv, BulkPass(gv), 0)
        /\ VertexCursorAtEnd(gv, BulkPass(gv))

----------------------------------------------------------------------------
(* Properties of SpecOnce: the rings of a MULTIPOLYGON *)

\* the rings partOffsets gives polygon p, each closed and decoded from its
\* ringOffsets range
RingsOfPolygon(v, p) ==
    [r \in 1..(At(v.partOffsets, p + 1) - At(v.partOffsets, p)) |->
        decodeLineStringAtVertexIndex(
            v, At(v.ringOffsets, At(v.partOffsets, p) + r - 1),
            At(v.ringOffsets, At(v.partOffsets, p) + r)
                - At(v.ringOffsets, At(v.partOffsets, p) + r - 1), TRUE)]

\* the rings of all polygons of the MULTIPOLYGON i, in polygon order
RingsOfMultiPolygon(v, i) ==
    Flat([p \in 1..(At(v.geometryOffsets, i + 1) - At(v.geometryOffsets, i)) |->
             RingsOfPolygon(v, At(v.geometryOffsets, i) + p - 1)])

MultiPolygonFeatures(v) ==
    {i \in 0..(numGeometries(v) - 1) : geometryType(v, i) = MULTIPOLYGON}

\* C21: the bulk output of a MULTIPOLYGON feature is the flat list of the rings
\* of its polygons in polygon order: as many rings as partOffsets counts, ring k
\* built from the ringOffsets[k+1] - ringOffsets[k] vertex entries of its range
C21_MultiPolygonFlatRings ==
    BulkReturned =>
        \A i \in MultiPolygonFeatures(gv) :
            /\ Len(At(cvBulk.geoms, i)) = Len(RingSizes(gv, i))
            /\ At(cvBulk.geoms, i) = RingsOfMultiPolygon(gv, i)

\* the same, for the vectors on which no MULTIPOINT precedes a MULTIPOLYGON
C21_MultiPolygonFlatRingsNoMultiPointBefore ==
    (\A i \in MultiPolygonFeatures(gv) :
        \A j \in 0..(i - 1) : geometryType(gv, j) # MULTIPOINT \/ gv.singleType)
    => C21_MultiPolygonFlatRings

----------------------------------------------------------------------------
(* Properties of SpecOnce: dictionary-encoded vertices *)

\* a ring without the closing point appended to it
Unclosed(ring) == SubSeq(ring, 1, Len(ring) - 1)

\* the vertices consumed for a feature of type t, in the order of its output
FeaturePoints(t, coords) ==
    IF IsPolygon(t) THEN Flat([r \in 1..Len(coords) |-> Unclosed(coords[r])])
    ELSE Flat(coords)

\* the vertices consumed by the whole bulk pass
BulkPoints(v, geoms) ==
    Flat([i \in 1..Len(geoms) |-> FeaturePoints(v.types[i], geoms[i])])

\* points[k] is the (x, y) pair at vertexBuffer[2 * vertexOffsets[from + k - 1]]
LookedUpAsPairs(v, points, from) ==
    /\ from + Len(points) <= Len(v.vertexOffsets)
    /\ \A k \in 1..Len(points) :
          /\ 2 * At(v.vertexOffsets, from + k - 1) + 2 <= Len(v.vertexBuffer)
          /\ points[k] = << At(v.vertexBuffer, 2 * At(v.vertexOffsets, from + k - 1)),
                            At(v.vertexBuffer, 2 * At(v.vertexOffsets, from + k - 1) + 1) >>

\* both converters read their vertices as pairs through vertexOffsets: the bulk
\* pass from entry 0 on, a single geometry from the first entry of its range
ReadThroughVertexOffsets ==
    /\ BulkReturned => LookedUpAsPairs(gv, BulkPoints(gv, cvBulk.geoms), 0)
    /\ cvSingle.err = "none" =>
          \E from \in 0..Len(gv.vertexOffsets) :
              LookedUpAsPairs(gv, FeaturePoints(geometryType(gv, cvIndex), cvSingle.coords),
                              from)

\* C22 as stated: whenever vertexOffsets is non-empty, the j-th vertex consumed
\* is the (x, y) pair at vertexBuffer[2 * vertexOffsets[j]]
C22_DictionaryLookup ==
    hasDictionaryEncoding(gv.vertexOffsets) => ReadThroughVertexOffsets

\* C22 for the buffers that hold pairs: when vertexOffsets is non-empty and the
\* vertex buffer type is VEC_2, the j-th vertex consumed is the (x, y) pair at
\* vertexBuffer[2 * vertexOffsets[j]]
C22_DictionaryLookupOfPairs ==
    (hasDictionaryEncoding(gv.vertexOffsets) /\ gv.vertexBufferType = VEC_2)
        => ReadThroughVertexOffsets

\* a polygon read through reversed vertexOffsets, by both converters
C22_Witness ==
    /\ BulkReturned /\ cvSingle.err = "none" /\ cvIndex = 1
    /\ gv.vertexBufferType = VEC_2
    /\ gv.types = << POINT, POLYGON >>
    /\ gv.vertexOffsets = << 3, 2, 1, 0 >>
    /\ cvBulk.geoms[1] = << << << 40, 41 >> >> >>
    /\ cvSingle.coords = cvBulk.geoms[2]
    /\ cvSingle.coords[1] = << << 30, 31 >>, << 20, 21 >>, << 10, 11 >>, << 30, 31 >> >>

----------------------------------------------------------------------------
(* Properties of SpecMorton *)

\* points[k] is the Z-order decode of vertexBuffer[vertexOffsets[from + k - 1]]
LookedUpAsCodes(v, points, from) ==
    /\ from + Len(points) <= Len(v.vertexOffsets)
    /\ \A k \in 1..Len(points) :
          /\ At(v.vertexOffsets, from + k - 1) < Len(v.vertexBuffer)
          /\ points[k] = decodeZOrderCurve(
                             At(v.vertexBuffer, At(v.vertexOffsets, from + k - 1)),
                             v.mortonSettings.numBits, v.mortonSettings.coordinateShift)

\* the last call of convertSingleGeometry had an index in range
SingleCallInRange ==
    cvSingle.err # "unset" /\ cvIndex >= 0 /\ cvIndex < numGeometries(gv)

C23_WitnessMissing ==
    /\ gv.vertexBufferType = MORTON /\ ~gv.hasMorton
    /\ gv.types = << MULTIPOINT, POLYGON >>
    /\ cvBulk.err = "Error"
    /\ cvIndex = 0 /\ cvSingle.err = "Error"

----------------------------------------------------------------------------
(* Properties of SpecFault *)

\* what a first read of feature f through resolver r meets downstream: the error
\* of resolving the vector, of the bulk decode or of the single decode
DownstreamError(f, r) ==
    IF r.hasAll THEN "none"
    ELSE IF ~r.resolved /\ resolveGeometryVector(World).err # "none"
    THEN resolveGeometryVector(World).err
    ELSE IF gpu THEN getGeometries(gv).err
    ELSE convertSingleGeometry(gv, feats[f].index).err

Decodes(c) == c.single + c.bulk + c.decode

\* C17: an error thrown while the vector is resolved, by the single-geometry
\* decode or by the bulk decode during a read of feature.geometry.coordinates
\* reaches the reader; nothing is stored in the feature's coordinate cache or in
\* the resolver's materialized cache, and a later read attempts the decode again
C17_ErrorsPropagate ==
    [][(lastOp'.op = "coordinates" /\ ~lastOp'.hit) =>
          /\ lastOp'.err = DownstreamError(lastOp'.feat, layers[lastOp'.layer])
          /\ lastOp'.err # "none" =>
                 /\ feats' = feats
                 /\ ~feats'[lastOp'.feat].has
                 /\ ~layers'[lastOp'.layer].hasAll
                 /\ layers'[lastOp'.layer].all = <<>>
          /\ (lastOp.op = "coordinates" /\ lastOp.err # "none"
                  /\ lastOp'.feat = lastOp.feat) =>
                 /\ Decodes(calls') = Decodes(calls) + 1
                 /\ lastOp'.err = lastOp.err]_vars

\* the column's decode threw twice, at the first read and at the read after it
C17_Witness ==
    /\ tbl.corrupt
    /\ lastOp.op = "coordinates" /\ lastOp.err = "Error"
    /\ calls.decode = 2
    /\ layers[1].count = 2
    /\ ~layers[1].resolved /\ ~layers[1].hasAll
    /\ ~feats[lastOp.feat].has

\* the single decode threw twice
C17_WitnessSingle ==
    /\ ~tbl.corrupt /\ ~gpu
    /\ lastOp.op = "coordinates" /\ lastOp.err = "Error"
    /\ calls.single = 2 /\ calls.bulk = 0

\* the bulk decode threw twice
C17_WitnessBulk ==
    /\ ~tbl.corrupt /\ gpu
    /\ lastOp.op = "coordinates" /\ lastOp.err = "Error"
    /\ calls.bulk = 2 /\ calls.single = 0

----------------------------------------------------------------------------
(* Properties of SpecFastPfor *)

\* C15: decoding the FastPFOR encoding of an int32 sequence with the original
\* length yields exactly the sequence, and the decoder's cursor ends exactly at
\* the end of the encoded bytes
C15_FastPforRoundTrip ==
    decoded # << >> =>
        /\ decoded[1].err = "none"
        /\ decoded[1].out = values.vs
        /\ offset = Len(tile)

\* a block with INT32_MAX exceptions and a tail of 3 values has been decoded
C15_Witness ==
    /\ decoded # << >>
    /\ Len(values.vs) = BLOCK_SIZE + 3
    /\ values.vs[4] = 2147483647
    /\ values.stale = -1
    /\ decoded[1].out = values.vs
    /\ offset = Len(tile)
    /\ offset = 112

\* the encoder has returned
FastPforReturned == tile # << >> /\ decoded = << >>

\* C27: encodeFastPforInt32(values) is deterministic in values alone: its output
\* is the output of encoding the same values with a freshly created workspace,
\* whatever the shared workspace holds from the arrays encoded before
C27_WorkspaceIndependent ==
    FastPforReturned => tile = encodeFastPfor(values.vs, 0).bytes

\* what the workspace holds changes neither the length of the output nor what
\* the decoder reads from it
C27_SameLengthAndValues ==
    FastPforReturned =>
        /\ Len(tile) = Len(encodeFastPfor(values.vs, 0).bytes)
        /\ decodeFastPfor(tile, Len(values.vs), Len(tile), 0).vs = values.vs

\* the first index of each whole block of an array
BlockStarts(vs) == { b * BLOCK_SIZE : b \in 0..((Len(vs) \div BLOCK_SIZE) - 1) }

\* the number of bits of value >>> 0
BitLength(value) ==
    IF value < 0 THEN 32
    ELSE IF value >= 1073741824 THEN 31
    ELSE CHOOSE n \in 0..30 : value < 2^n /\ (n = 0 \/ value >= 2^(n - 1))

\* the values of the block at pos that do not fit bitWidth bits
Exceeding(vs, pos, bitWidth) ==
    { k \in 1..BLOCK_SIZE : BitLength(vs[pos + k]) > bitWidth }

\* the header bytes of the block at pos: bitWidth, cExcept and, with
\* exceptions, maxBits
HeaderOfPlan(best) == writeBlockHeader(<< >>, best.bitWidth, best.cExcept, best.maxBits)

BlockHeader(vs, pos) == HeaderOfPlan(computeBestBitWidthPlan(vs, pos))

\* the header of a block counts the values that do not fit, and its exception
\* index is one of a stream
HeaderCounts(vs, pos, header) ==
    /\ header[2] = Cardinality(Exceeding(vs, pos, header[1]))
    /\ header[2] \in 0..255
    /\ header[2] > 0 => (header[3] - header[1]) \in 1..32

\* the encoder threw
FastPforThrew == tile = << >> /\ decoded # << >>

\* C28: encodeFastPforInt32 never raises one of its internal errors: for every
\* block the exception count written to the one-byte header equals the number
\* of values whose bit length exceeds the chosen bitWidth and lies in 0..255,
\* the exception index maxBits - bitWidth lies in 1..32 whenever the count is
\* positive, and the VByte tail always holds fewer than 256 values
C28_NoInternalError ==
    /\ ~FastPforThrew
    /\ FastPforReturned =>
         /\ \A pos \in BlockStarts(values.vs) :
                HeaderCounts(values.vs, pos, BlockHeader(values.vs, pos))
         /\ Len(values.vs) - greatestMultiple(Len(values.vs), BLOCK_SIZE) < 256

\* two blocks encoded, the first with exceptions of index 29, the second with
\* others, and a tail of 3 values
C28_Witness ==
    /\ FastPforReturned
    /\ Len(values.vs) = 2 * BLOCK_SIZE + 3
    /\ BlockHeader(values.vs, 0) = << 2, 4, 31 >>
    /\ BlockHeader(values.vs, BLOCK_SIZE)[2] > 0
    /\ BlockHeader(values.vs, BLOCK_SIZE)[1] # 2

\* a block of negative values only: 32 bits each, no exception
C28_WitnessNegative ==
    /\ FastPforReturned
    /\ Len(values.vs) = BLOCK_SIZE
    /\ \A k \in 1..BLOCK_SIZE : values.vs[k] < 0
    /\ BlockHeader(values.vs, 0) = << 32, 0 >>

----------------------------------------------------------------------------
(* Properties of SpecUnpack *)

\* the fixed-width routine has been called
FixedWidthCalled == Len(decoded) >= 1

\* the routine exists and decodes values.count values from values.w input words
\* for every 32 of them
ProvidesShape ==
    /\ decoded[1].err = "none"
    /\ Len(decoded[1].out) = values.count
    /\ Cardinality(decoded[1].reads) = (values.count \div 32) * values.w

\* C25: for each bit width w in {1..12, 16} the generated unpackers provide both
\* shapes: an unpack32 routine (32 values from w input words) and an unpack256
\* routine (256 values from 8*w input words)
C25_BothShapes ==
    (FixedWidthCalled /\ values.w \in (1..12) \cup { 16 }) => ProvidesShape

\* C25 (amended): for each bit width w in {1..12, 16} the generated unpackers
\* provide an unpack32 routine (32 values from w input words), and for each w in
\* {1..8, 16} an unpack256 routine (256 values from 8*w input words)
C25_ShapesGenerated ==
    ( /\ FixedWidthCalled
      /\ \/ values.count = 32 /\ values.w \in (1..12) \cup { 16 }
         \/ values.count = 256 /\ values.w \in (1..8) \cup { 16 } )
    => ProvidesShape

\* fastUnpack256_8 has decoded 256 values from 64 words
C25_Witness ==
    /\ FixedWidthCalled
    /\ values.count = 256 /\ values.w = 8
    /\ decoded[1].err = "none"
    /\ Len(decoded[1].out) = 256
    /\ Cardinality(decoded[1].reads) = 64

\* fastUnpack32_12 has decoded 32 values from 12 words
C25_Witness32 ==
    /\ FixedWidthCalled
    /\ values.count = 32 /\ values.w = 12
    /\ decoded[1].err = "none"
    /\ Len(decoded[1].out) = 32
    /\ Cardinality(decoded[1].reads) = 12

\* value & MASKS[w], as an int32
MaskedTo(value, w) == ToInt32(BitAnd(Bits32(value), MASKS(w)))

\* both routines have run on the same words, and the fixed-width one exists
BothUnpacked == Len(decoded) = 2 /\ decoded[1].err = "none"

\* C26: each generated fixed-width unpacker is equivalent to the generic
\* bit-offset routine: it reads exactly the w input words inPos..inPos+w-1 of
\* every 32 values (8*w words for 256 values) and produces, value for value,
\* the same unsigned w-bit outputs as the generic unpack, which inverts the
\* encoder's fastPack32 on values masked to w bits
C26_GeneratedEqualsGeneric ==
    BothUnpacked =>
        /\ decoded[1].reads
             = { values.inPos + k : k \in 0..((values.count \div 32) * values.w - 1) }
        /\ decoded[1].out = SubSeq(decoded[2].out, 1, values.count)
        /\ \A i \in 1..values.count :
               decoded[1].out[i] >= 0 /\ decoded[1].out[i] < 2^values.w
        /\ Len(decoded[2].out) = BLOCK_SIZE
        /\ decoded[2].reads = { values.inPos + k : k \in 0..(8 * values.w - 1) }
        /\ values.src # << >> =>
               \A i \in 1..BLOCK_SIZE :
                   decoded[2].out[i] = MaskedTo(values.src[i], values.w)

\* fastUnpack256_7, whose values straddle words, after the generic routine on
\* the words packBlock wrote behind one other word
C26_Witness ==
    /\ BothUnpacked
    /\ values.count = 256 /\ values.w = 7 /\ values.inPos = 1
    /\ values.src # << >>
    /\ decoded[1].out = decoded[2].out
    /\ decoded[1].out[10] = MaskedTo(values.src[10], 7)
    /\ decoded[1].out[10] # values.src[10]

\* fastUnpack32_11 and the first 32 values of the generic routine
C26_Witness32 ==
    /\ BothUnpacked
    /\ values.count = 32 /\ values.w = 11
    /\ values.src = << >>
    /\ decoded[1].out = SubSeq(decoded[2].out, 1, 32)
    /\ \E i \in 1..32 : decoded[1].out[i] # 0

----------------------------------------------------------------------------
(* Properties of SpecPages *)

\* the step is a call of encodePage, or of encodeVByte
PageStep == Len(decoded') = Len(decoded) + 1 /\ decoded'[Len(decoded')].op = "page"

TailStep == Len(decoded') = Len(decoded) + 1 /\ decoded'[Len(decoded')].op = "tail"

\* encodeVByte has returned
TailEncoded == decoded # << >> /\ LastCall = "tail"

\* the pages encoded so far
PagesEncoded == { n \in 1..Len(decoded) : decoded[n].op = "page" }

\* the 256-aligned end of the array
AlignedEnd == values.length - (values.length % BLOCK_SIZE)

\* C29: the encoder's page loop terminates for every input length: each
\* encodePage call advances the input position by exactly its page size (a
\* positive multiple of 256, at most 65536) and never past the 256-aligned end,
\* so the distance to that end shrinks at every pass until the position is the
\* end exactly and the inequality-tested loop of headlessEncode is left; then
\* exactly length mod 256 values remain for the VByte tail
C29_PageLoopTerminates ==
    /\ [][PageStep =>
            /\ offset' = offset + decoded'[Len(decoded')].thisSize
            /\ decoded'[Len(decoded')].thisSize > 0
            /\ decoded'[Len(decoded')].thisSize % BLOCK_SIZE = 0
            /\ decoded'[Len(decoded')].thisSize <= 65536
            /\ AlignedEnd - offset' >= 0
            /\ AlignedEnd - offset' < AlignedEnd - offset]_vars
    /\ [][TailStep =>
            /\ offset = AlignedEnd
            /\ decoded'[Len(decoded')].thisSize = values.length % BLOCK_SIZE
            /\ offset' = values.length]_vars
    /\ [](decoded # << >> => LastCall # "threw")
    /\ [](TailEncoded =>
            Cardinality(PagesEncoded) = (AlignedEnd + PAGE_SIZE - 1) \div PAGE_SIZE)

\* two whole pages and a third of one block have been encoded, and a tail of 3
C29_Witness ==
    /\ TailEncoded
    /\ values.length = 2 * PAGE_SIZE + BLOCK_SIZE + 3
    /\ Len(decoded) = 5
    /\ decoded[2].thisSize = PAGE_SIZE
    /\ decoded[3].thisSize = PAGE_SIZE
    /\ decoded[4].thisSize = BLOCK_SIZE
    /\ decoded[5].thisSize = 3

====
